---- MODULE Spec2Model ----
(***************************************************************************)
(* A model of the w-git command line tool: the top-level dispatcher, the   *)
(* commit flow and the clean, worktree, release and staging handlers.      *)
(*                                                                         *)
(* One behaviour is one invocation of the tool.  Every git child process,  *)
(* every request to the text-generation provider, every prompt shown to    *)
(* the user and every message printed is appended to `trace`, in the order *)
(* in which the code awaits it.                                            *)
(*                                                                         *)
(* Representation.  Texts (commit messages, file names, git output) are    *)
(* sequences of one-character strings, so that trim, split and substring   *)
(* are computed as the code computes them.  An `undefined` text option is  *)
(* the empty sequence: the code only ever tests these options for          *)
(* truthiness, and the empty string is falsy as well.  A prompt answers    *)
(* "cancel" when the user aborts it (the prompt library's cancel symbol,   *)
(* which isCancel() recognises and which is truthy in a condition).        *)
(*                                                                         *)
(* The functions that do not drive a handler (parsing, grouping, message   *)
(* building, configuration loading) are also run on their own: a behaviour *)
(* of SpecCalls is one call of one of them, `callIn` holding its arguments.*)
(***************************************************************************)
EXTENDS Integers, Sequences, FiniteSets, TLC

VARIABLES
    pc,          \* position of the running handler
    cmd,         \* argv[0]: the command dispatched by main
    args,        \* argv[1..]: the command's arguments
    options,     \* CommitOptions, as parsed by parseCommitArgs
    config,      \* the resolved ai.provider section of the configuration
    statusOut,   \* stdout of the `git status --porcelain` run by hasChanges
    allChanges,  \* stdout of the `git status --porcelain` run by getAllChanges
    groups,      \* autocommit: the change groups, in processing order
    gi,          \* autocommit: index of the group being processed
    fi,          \* autocommit: index of the next file of that group to stage
    msg,         \* the message or text the handler currently holds
    loc,         \* further locals of the running handler (a record)
    trace,       \* everything the invocation did, in order
    commitStart, \* Len(trace) when commitCommand was entered
    exitCode,    \* -1 while running, then the process exit code
    call,        \* the function called on its own, "" in a run of main
    callIn,      \* the arguments (and the environment) of that call
    callOut      \* what the call returned

vars == <<pc, cmd, args, options, config, statusOut, allChanges, groups, gi, fi,
          msg, loc, trace, commitStart, exitCode, call, callIn, callOut>>

\* ------------------------------------------------------------------ bounds
MaxFlags == 1
MaxLines == 2
MaxGroupLines == 3
\* existing configuration files
MaxFiles == 2

\* ------------------------------------------------------------------ texts
Whitespace == {" ", "\n", "\r", "\t"}

RECURSIVE TrimStart(_)
TrimStart(s) ==
    IF s /= <<>> /\ Head(s) \in Whitespace THEN TrimStart(Tail(s)) ELSE s

RECURSIVE TrimEnd(_)
TrimEnd(s) ==
    IF s /= <<>> /\ s[Len(s)] \in Whitespace
    THEN TrimEnd(SubSeq(s, 1, Len(s) - 1))
    ELSE s

\* String.prototype.trim
Trim(s) == TrimEnd(TrimStart(s))

\* JavaScript truthiness of a text (undefined and "" are falsy)
Truthy(s) == s /= <<>>

\* String.prototype.substring(from) and substring(from, to), 0-based
SubstringFrom(s, from) == SubSeq(s, from + 1, Len(s))
Substring(s, from, to) ==
    SubSeq(s, from + 1, IF to < Len(s) THEN to ELSE Len(s))

\* String.prototype.includes for a single character
Includes(s, ch) == \E i \in 1..Len(s) : s[i] = ch

\* s.split("\n"): the pieces between newlines, empty pieces included
RECURSIVE SplitLinesAcc(_, _, _)
SplitLinesAcc(s, cur, acc) ==
    IF s = <<>> THEN Append(acc, cur)
    ELSE IF Head(s) = "\n" THEN SplitLinesAcc(Tail(s), <<>>, Append(acc, cur))
    ELSE SplitLinesAcc(Tail(s), Append(cur, Head(s)), acc)

SplitLines(s) == SplitLinesAcc(s, <<>>, <<>>)

\* .filter(Boolean) on a list of texts
FilterNonEmpty(ls) == SelectSeq(ls, Truthy)

\* lines.join("\n")
RECURSIVE JoinLines(_)
JoinLines(ls) ==
    IF ls = <<>> THEN <<>>
    ELSE IF Len(ls) = 1 THEN ls[1]
    ELSE ls[1] \o <<"\n">> \o JoinLines(Tail(ls))

\* All sequences over S of length at most n
SeqUpTo(S, n) == UNION {[1..k -> S] : k \in 0..n}

\* ------------------------------------------------------------------ events
GitEv(op, arg, ok) == [kind |-> "git", op |-> op, arg |-> arg, res |-> "", ok |-> ok]
AiEv(provider, model, input, ok) ==
    [kind |-> "ai", op |-> provider, arg |-> input, res |-> model, ok |-> ok]
PromptEv(name, shown, ans) ==
    [kind |-> "prompt", op |-> name, arg |-> shown, res |-> ans, ok |-> TRUE]
OutEv(text) == [kind |-> "out", op |-> text, arg |-> <<>>, res |-> "", ok |-> TRUE]

\* git subcommands that change the repository, its index or a remote
MutatingOps == {"add", "commit", "cherry-pick", "clean", "gc", "prune",
                "worktree add", "worktree remove", "checkout -b", "tag",
                "tag -d", "push", "push --delete", "reset", "restore"}

IsMutation(e) == e.kind = "git" /\ e.op \in MutatingOps

\* isCancel(answer)
isCancel(ans) == ans = "cancel"

\* truthiness of what confirm() resolved to: true, false or the cancel symbol
ConfirmTruthy(ans) == ans /= "no"

ConfirmAnswers == {"yes", "no", "cancel"}


\* ------------------------------------------------------------------ inputs
\* The flags an argument list is made of: a flag with its value, or a flag
\* whose value is missing (it then takes the next word, if any, as its value)
CommitFlags ==
    {<<"--ai">>, <<"--no-ai">>, <<"-b">>, <<"-h">>,
     <<"-m", "fix">>, <<"-t", "fix">>, <<"-s", "fix">>, <<"-m">>, <<"--mode">>,
     <<"--mode", "autocommit">>, <<"--mode", "prompt-enhance">>,
     <<"--mode", "ai-generate">>, <<"--mode", "interactive">>,
     <<"--mode", "cherry-pick">>}
ReleaseFlags == {<<"--dry-run">>, <<"--rollback">>, <<"-h">>}
OtherFlags == {<<"-h">>}

RECURSIVE Flatten(_)
Flatten(ss) == IF ss = <<>> THEN <<>> ELSE Head(ss) \o Flatten(Tail(ss))

\* The characters of an argument that is used as a value (of -m, -t or -s)
Chars(t) ==
    CASE t = "--ai" -> <<"-", "-", "a", "i">>
      [] t = "--no-ai" -> <<"-", "-", "n", "o", "-", "a", "i">>
      [] t = "-m" -> <<"-", "m">>
      [] t = "-t" -> <<"-", "t">>
      [] t = "-s" -> <<"-", "s">>
      [] t = "-b" -> <<"-", "b">>
      [] t = "--mode" -> <<"-", "-", "m", "o", "d", "e">>
      [] t = "-h" -> <<"-", "h">>
      [] t = "autocommit" -> <<"a", "u", "t", "o", "c", "o", "m", "m", "i", "t">>
      [] t = "prompt-enhance" ->
            <<"p", "r", "o", "m", "p", "t", "-", "e", "n", "h", "a", "n", "c", "e">>
      [] t = "ai-generate" -> <<"a", "i", "-", "g", "e", "n", "e", "r", "a", "t", "e">>
      [] t = "interactive" -> <<"i", "n", "t", "e", "r", "a", "c", "t", "i", "v", "e">>
      [] t = "cherry-pick" -> <<"c", "h", "e", "r", "r", "y", "-", "p", "i", "c", "k">>
      [] t = "fix" -> <<"f", "i", "x">>
      [] OTHER -> <<"x">>

Feat == <<"f", "e", "a", "t">>
Fix == <<"f", "i", "x">>

\* What the user may answer to the prompts (values that pass validate())
TypeChoices == {Feat, Fix}
ScopeAnswers == {<<>>, <<"a", "p", "i">>}
SubjectAnswers == {<<"a", "d", "d">>}
DescAnswers == {<<>>, <<"n", "e", "w">>}
DraftAnswers == {<<"w", "i", "p">>}
HashAnswers == {<<"a", "b", "c", "1">>}

\* What the provider may return on success
AiTexts == {<<>>, <<"f", "i", "x", ":", " ", "a">>}

\* ------------------------------------------------------------------ parseCommitArgs
Modes == {"autocommit", "prompt-enhance", "ai-generate", "interactive"}

DefaultOptions ==
    [ai |-> TRUE, no_ai |-> FALSE, message |-> <<>>, type |-> <<>>,
     scope |-> <<>>, breaking |-> FALSE, help |-> FALSE, mode |-> ""]

\* the --mode case of parseCommitArgs: the values it accepts
AcceptedMode(m) == m \in Modes

RECURSIVE ParseFrom(_, _, _)
ParseFrom(a, i, o) ==
    IF i > Len(a) THEN o
    ELSE LET arg == a[i]
             hasNext == i < Len(a)
         IN CASE arg \in {"-a", "--ai"} ->
                    ParseFrom(a, i + 1, [o EXCEPT !.ai = TRUE])
              [] arg = "--no-ai" ->
                    ParseFrom(a, i + 1, [o EXCEPT !.no_ai = TRUE, !.ai = FALSE])
              [] arg \in {"-m", "--message"} ->
                    IF hasNext
                    THEN ParseFrom(a, i + 2, [o EXCEPT !.message = Chars(a[i + 1])])
                    ELSE ParseFrom(a, i + 1, o)
              [] arg \in {"-t", "--type"} ->
                    IF hasNext
                    THEN ParseFrom(a, i + 2, [o EXCEPT !.type = Chars(a[i + 1])])
                    ELSE ParseFrom(a, i + 1, o)
              [] arg \in {"-s", "--scope"} ->
                    IF hasNext
                    THEN ParseFrom(a, i + 2, [o EXCEPT !.scope = Chars(a[i + 1])])
                    ELSE ParseFrom(a, i + 1, o)
              [] arg \in {"-b", "--breaking"} ->
                    ParseFrom(a, i + 1, [o EXCEPT !.breaking = TRUE])
              [] arg = "--mode" ->
                    IF hasNext
                    THEN ParseFrom(a, i + 2,
                                   IF AcceptedMode(a[i + 1])
                                   THEN [o EXCEPT !.mode = a[i + 1]]
                                   ELSE o)
                    ELSE ParseFrom(a, i + 1, o)
              [] arg \in {"-h", "--help"} ->
                    ParseFrom(a, i + 1, [o EXCEPT !.help = TRUE])
              [] OTHER -> ParseFrom(a, i + 1, o)

parseCommitArgs(a) == ParseFrom(a, 1, DefaultOptions)

\* ------------------------------------------------------------------ buildCommitMessage
\* A variant of buildCommitMessage that tests the trimmed texts but inserts
\* them as they were given
buildCommitMessage_NoTrim(type, scope, message, breaking, breakingDesc) ==
    type
    \o (IF Truthy(Trim(scope)) THEN <<"(">> \o scope \o <<")">> ELSE <<>>)
    \o <<":", " ">> \o message
    \o (IF breaking /\ Truthy(Trim(breakingDesc))
        THEN <<"\n", "\n", "B", "R", "E", "A", "K", "I", "N", "G", " ",
               "C", "H", "A", "N", "G", "E", ":", " ">> \o breakingDesc
        ELSE <<>>)

buildCommitMessage(type, scope, message, breaking, breakingDesc) ==
    type
    \o (IF Truthy(Trim(scope)) THEN <<"(">> \o Trim(scope) \o <<")">> ELSE <<>>)
    \o <<":", " ">> \o message
    \o (IF breaking /\ Truthy(Trim(breakingDesc))
        THEN <<"\n", "\n", "B", "R", "E", "A", "K", "I", "N", "G", " ",
               "C", "H", "A", "N", "G", "E", ":", " ">> \o Trim(breakingDesc)
        ELSE <<>>)

\* ------------------------------------------------------------------ text generation
Providers == {"openai", "anthropic", "xai"}

\* the default of the `model` parameter of generateWithOpenAI / Anthropic / XAI
ProviderDefaultModel(p) ==
    CASE p = "openai" -> "gpt-4"
      [] p = "anthropic" -> "claude-3-haiku-20240307"
      [] p = "xai" -> "grok-3-beta"
      [] OTHER -> ""

\* generateText: the model the request names, given the AIProviderConfig
RequestedModel(aiConfig) ==
    IF aiConfig.model /= "" THEN aiConfig.model
    ELSE ProviderDefaultModel(aiConfig.provider)

\* the AIProviderConfig that generateAICommitMessage and enhanceCommitMessage
\* build from the resolved configuration: { provider: config.ai.provider.provider }
CommitAiConfig(cfg) == [provider |-> cfg.provider, model |-> ""]

\* generateText's switch: the providers it has a case for
SupportedProvider(p) == p \in Providers

\* resolved configurations: ai.provider.provider and ai.provider.model
\* (model "" stands for an absent model)
Configs ==
    {[provider |-> "openai", model |-> ""], [provider |-> "openai", model |-> "gpt-4o"],
     [provider |-> "anthropic", model |-> ""], [provider |-> "gemini", model |-> ""]}

\* ------------------------------------------------------------------ change grouping
\* A variant of the type chain that tests M before A
TypeOfStatus_ModifiedFirst(status) ==
    IF Includes(status, "M") THEN "fix"
    ELSE IF Includes(status, "A") THEN "feat"
    ELSE IF Includes(status, "D") THEN "remove"
    ELSE IF Includes(status, "R") THEN "refactor"
    ELSE "misc"

TypeOfStatus(status) ==
    IF Includes(status, "A") THEN "feat"
    ELSE IF Includes(status, "M") THEN "fix"
    ELSE IF Includes(status, "D") THEN "remove"
    ELSE IF Includes(status, "R") THEN "refactor"
    ELSE "misc"

\* groups.get(type).push(file), creating the group at the end when it is new
AddToGroup(gs, type, file) ==
    IF \E i \in 1..Len(gs) : gs[i].type = type
    THEN [i \in 1..Len(gs) |->
            IF gs[i].type = type
            THEN [gs[i] EXCEPT !.files = Append(@, file)]
            ELSE gs[i]]
    ELSE Append(gs, [type |-> type, files |-> <<file>>])

RECURSIVE GroupFrom(_, _)
GroupFrom(lines, gs) ==
    IF lines = <<>> THEN gs
    ELSE LET line == Head(lines)
             status == Substring(line, 0, 2)
             file == SubstringFrom(line, 3)
         IN GroupFrom(Tail(lines), AddToGroup(gs, TypeOfStatus(status), file))

groupChangesByType(statusLines) == GroupFrom(statusLines, <<>>)

\* the porcelain lines a repository can report: XY, a space, the path
StatusLine(code, path) == code \o <<" ">> \o path
StatusLinesSet ==
    {StatusLine(<<" ", "M">>, <<"a", "b">>), StatusLine(<<"?", "?">>, <<"c">>),
     StatusLine(<<"A", " ">>, <<"d">>)}

\* stdout of `git status --porcelain` (execa strips the final newline)
StatusOutputs == {JoinLines(ls) : ls \in SeqUpTo(StatusLinesSet, MaxLines)}

\* what hasChanges may see: nothing, only white space, or a change
HasChangesOutputs == {<<>>, <<" ">>, StatusLine(<<" ", "M">>, <<"a", "b">>)}


\* ------------------------------------------------------------------ initial state
Commands == {"commit", "clean", "worktree", "release", "staging"}

FlagsOf(c) ==
    IF c = "commit" THEN CommitFlags
    ELSE IF c = "release" THEN ReleaseFlags
    ELSE OtherFlags

ArgLists(c) == {Flatten(fs) : fs \in SeqUpTo(FlagsOf(c), MaxFlags)}

EmptyLoc ==
    [flow |-> "", type |-> <<>>, scope |-> <<>>, subject |-> <<>>,
     breaking |-> FALSE, desc |-> <<>>, sel |-> <<>>, staged |-> <<>>,
     bumpType |-> "", tagType |-> "", createBranch |-> "", dryRun |-> FALSE,
     latestTag |-> <<>>, newVersion |-> <<>>]

Init ==
    /\ pc = "main"
    /\ cmd \in Commands
    /\ args \in ArgLists(cmd)
    /\ options = DefaultOptions
    /\ config = [provider |-> "openai", model |-> ""]
    /\ statusOut = <<>>
    /\ allChanges = <<>>
    /\ groups = <<>>
    /\ gi = 1
    /\ fi = 1
    /\ msg = <<>>
    /\ loc = EmptyLoc
    /\ trace = <<>>
    /\ commitStart = 0
    /\ exitCode = -1
    /\ call = ""
    /\ callIn = <<>>
    /\ callOut = <<>>

HasArg(a, names) == \E i \in 1..Len(a) : a[i] \in names

\* ------------------------------------------------------------------ main
EntryOf(c) == c

\* main(): help flags first, then the switch over the command
Main ==
    /\ pc = "main"
    /\ IF HasArg(args, {"--help", "-h"})
       THEN /\ trace' = Append(trace, OutEv("help"))
            /\ pc' = "exit"
            /\ exitCode' = 0
       ELSE /\ trace' = trace
            /\ pc' = EntryOf(cmd)
            /\ exitCode' = exitCode
    /\ UNCHANGED <<call, callIn, callOut, cmd, args, options, config, statusOut, allChanges, groups,
                   gi, fi, msg, loc, commitStart>>

\* the main() that dispatches without looking for help flags
MainLegacy ==
    /\ pc = "main"
    /\ cmd = "commit"
    /\ pc' = EntryOf(cmd)
    /\ UNCHANGED <<call, callIn, callOut, cmd, args, options, config, statusOut, allChanges, groups,
                   gi, fi, msg, loc, trace, commitStart, exitCode>>

\* the handler returned: process.exit(0)
MainExit ==
    /\ pc = "ret"
    /\ pc' = "exit"
    /\ exitCode' = 0
    /\ UNCHANGED <<call, callIn, callOut, cmd, args, options, config, statusOut, allChanges, groups,
                   gi, fi, msg, loc, trace, commitStart>>

\* the handler threw: outro(error), process.exit(1)
MainCatch ==
    /\ pc = "throw"
    /\ pc' = "exit"
    /\ exitCode' = 1
    /\ trace' = Append(trace, OutEv("Error"))
    /\ UNCHANGED <<call, callIn, callOut, cmd, args, options, config, statusOut, allChanges, groups,
                   gi, fi, msg, loc, commitStart>>

\* ------------------------------------------------------------------ commitCommand
\* A variant of hasChanges that tests the raw output, without trim()
hasChanges_NoTrim(status) == Len(status) > 0

hasChanges(status) == Len(Trim(status)) > 0

CommitEnter ==
    /\ pc = "commit"
    /\ options' = parseCommitArgs(args)
    /\ \E c \in Configs : config' = c
    /\ commitStart' = Len(trace)
    /\ IF options'.help
       THEN /\ trace' = Append(trace, OutEv("commit help"))
            /\ pc' = "ret"
       ELSE /\ trace' = Append(trace, OutEv("intro"))
            /\ pc' = "c_check"
    /\ UNCHANGED <<call, callIn, callOut, cmd, args, statusOut, allChanges, groups, gi, fi, msg, loc,
                   exitCode>>

CheckChanges ==
    /\ pc = "c_check"
    /\ \/ /\ trace' = trace \o <<GitEv("status", <<>>, FALSE), OutEv("failed")>>
          /\ pc' = "throw"
          /\ statusOut' = statusOut
       \/ \E out \in HasChangesOutputs :
            /\ statusOut' = out
            /\ IF ~hasChanges(out) /\ options.mode /= "cherry-pick"
               THEN /\ trace' = trace \o <<GitEv("status", out, TRUE),
                                           OutEv("No changes to commit")>>
                    /\ pc' = "ret"
               ELSE /\ trace' = Append(trace, GitEv("status", out, TRUE))
                    /\ pc' = IF Truthy(options.message) THEN "c_direct" ELSE "c_mode"
    /\ UNCHANGED <<call, callIn, callOut, cmd, args, options, config, allChanges, groups, gi, fi, msg,
                   loc, commitStart, exitCode>>

\* executeCommit(message): git commit -m message
executeCommit(message, next, done) ==
    \E ok \in BOOLEAN :
        IF ok
        THEN /\ trace' = trace \o <<GitEv("commit", message, TRUE)>> \o done
             /\ pc' = next
        ELSE /\ trace' = trace \o <<GitEv("commit", message, FALSE), OutEv("failed")>>
             /\ pc' = "throw"

DirectCommit ==
    /\ pc = "c_direct"
    /\ executeCommit(options.message, "ret", <<>>)
    /\ UNCHANGED <<call, callIn, callOut, cmd, args, options, config, statusOut, allChanges, groups,
                   gi, fi, msg, loc, commitStart, exitCode>>

\* the condition under which commitCommand asks for the mode
AsksMode(o) == o.mode = "" /\ ~o.ai /\ ~o.no_ai

\* the options select() offers in selectCommitMode
SelectableModes == {"autocommit", "prompt-enhance", "ai-generate", "interactive"}

\* the chain of `if (options.mode === ...)` of commitCommand
ModeTarget(o) ==
    CASE o.mode = "autocommit" -> "auto"
      [] o.mode = "prompt-enhance" -> "pe_draft"
      [] o.mode = "ai-generate" -> "ai_staged"
      [] o.mode = "interactive" -> "i_type"
      [] o.mode = "cherry-pick" -> "cp_hash"
      [] OTHER -> IF o.ai /\ ~o.no_ai THEN "ai_staged" ELSE "i_type"

FlowOf(target) ==
    CASE target = "auto" -> "autocommit"
      [] target = "pe_draft" -> "prompt-enhance"
      [] target = "ai_staged" -> "ai-generate"
      [] target = "i_type" -> "interactive"
      [] OTHER -> "cherry-pick"

SelectMode ==
    /\ pc = "c_mode"
    /\ IF AsksMode(options)
       THEN \E ans \in SelectableModes \cup {"cancel"} :
              IF isCancel(ans)
              THEN /\ trace' = trace \o <<PromptEv("mode", <<>>, ans),
                                          OutEv("Operation cancelled")>>
                   /\ options' = options
                   /\ pc' = "ret"
                   /\ loc' = loc
              ELSE /\ trace' = Append(trace, PromptEv("mode", <<>>, ans))
                   /\ options' = [options EXCEPT !.mode = ans]
                   /\ pc' = ModeTarget(options')
                   /\ loc' = [loc EXCEPT !.flow = FlowOf(pc')]
       ELSE /\ trace' = trace
            /\ options' = options
            /\ pc' = ModeTarget(options)
            /\ loc' = [loc EXCEPT !.flow = FlowOf(pc')]
    /\ UNCHANGED <<call, callIn, callOut, cmd, args, config, statusOut, allChanges, groups, gi, fi,
                   msg, commitStart, exitCode>>


\* ------------------------------------------------------------------ AI messages
\* stdout of `git diff --cached`
Diffs == {<<"+", "a">>}

\* generateText(prompt, aiConfig): the switch over the provider, then one request
\* `pre` are the events of the same step that came before the call
generateText(pre, input, aiConfig, nextOk, nextEmpty) ==
    IF ~SupportedProvider(aiConfig.provider)
    THEN /\ trace' = trace \o pre \o <<OutEv("Unsupported AI provider"), OutEv("failed")>>
         /\ pc' = "throw"
         /\ msg' = msg
    ELSE \E ok \in BOOLEAN :
           IF ok
           THEN \E t \in AiTexts :
                  /\ trace' = trace \o pre \o
                        <<AiEv(aiConfig.provider, RequestedModel(aiConfig), input, TRUE)>>
                  /\ msg' = t
                  /\ pc' = IF Truthy(t) THEN nextOk ELSE nextEmpty
           ELSE /\ trace' = trace \o pre \o
                        <<AiEv(aiConfig.provider, RequestedModel(aiConfig), input, FALSE),
                          OutEv("failed")>>
                /\ msg' = msg
                /\ pc' = "throw"

\* generateAICommitMessage(config): git diff --cached, then generateCommitMessage
generateAICommitMessage(nextOk, nextEmpty) ==
    \/ /\ trace' = trace \o <<GitEv("diff --cached", <<>>, FALSE), OutEv("failed")>>
       /\ pc' = "throw"
       /\ msg' = msg
    \/ \E d \in Diffs :
         generateText(<<GitEv("diff --cached", d, TRUE)>>, d, CommitAiConfig(config),
                      nextOk, nextEmpty)

\* Variants of confirmCommitMessage: one returns the resolved value without
\* the isCancel test (the cancel symbol is truthy), one ignores the answer
confirmCommitMessage_NoCancelCheck(ans) == ConfirmTruthy(ans)

confirmCommitMessage_Always(ans) == TRUE

\* confirmCommitMessage(message): false on cancel, else the answer
confirmCommitMessage(ans) == IF isCancel(ans) THEN FALSE ELSE ans = "yes"

\* ------------------------------------------------------------------ createAICommit
\* getStagedFiles(): git diff --cached --name-only
StagedOutputs == {<<>>, <<"a", "b">>}

\* createAICommit without the test of line 198
AiStaged_IgnoresEmpty ==
    /\ pc = "ai_staged"
    /\ \/ /\ trace' = trace \o <<GitEv("diff --cached --name-only", <<>>, FALSE),
                                 OutEv("failed")>>
          /\ pc' = "throw"
       \/ \E out \in StagedOutputs :
            /\ trace' = Append(trace, GitEv("diff --cached --name-only", out, TRUE))
            /\ pc' = "ai_gen"
    /\ UNCHANGED <<call, callIn, callOut, cmd, args, options, config, statusOut, allChanges, groups,
                   gi, fi, msg, loc, commitStart, exitCode>>

AiStaged ==
    /\ pc = "ai_staged"
    /\ \/ /\ trace' = trace \o <<GitEv("diff --cached --name-only", <<>>, FALSE),
                                 OutEv("failed")>>
          /\ pc' = "throw"
       \/ \E out \in StagedOutputs :
            IF Len(FilterNonEmpty(SplitLines(Trim(out)))) = 0
            THEN /\ trace' = trace \o <<GitEv("diff --cached --name-only", out, TRUE),
                                        OutEv("No staged changes to commit")>>
                 /\ pc' = "ret"
            ELSE /\ trace' = Append(trace, GitEv("diff --cached --name-only", out, TRUE))
                 /\ pc' = "ai_gen"
    /\ UNCHANGED <<call, callIn, callOut, cmd, args, options, config, statusOut, allChanges, groups,
                   gi, fi, msg, loc, commitStart, exitCode>>

AiGenerate ==
    /\ pc = "ai_gen"
    /\ generateAICommitMessage("ai_confirm", "ret")
    /\ UNCHANGED <<call, callIn, callOut, cmd, args, options, config, statusOut, allChanges, groups,
                   gi, fi, loc, commitStart, exitCode>>

AiConfirm ==
    /\ pc = "ai_confirm"
    /\ \E ans \in ConfirmAnswers :
         /\ trace' = Append(trace, PromptEv("confirm", msg, ans))
         /\ pc' = IF confirmCommitMessage(ans) THEN "ai_exec" ELSE "ret"
    /\ UNCHANGED <<call, callIn, callOut, cmd, args, options, config, statusOut, allChanges, groups,
                   gi, fi, msg, loc, commitStart, exitCode>>

AiExecute ==
    /\ pc = "ai_exec"
    /\ executeCommit(msg, "ret", <<OutEv("AI commit created successfully")>>)
    /\ UNCHANGED <<call, callIn, callOut, cmd, args, options, config, statusOut, allChanges, groups,
                   gi, fi, msg, loc, commitStart, exitCode>>

\* ------------------------------------------------------------------ createPromptEnhanceCommit
PeDraft ==
    /\ pc = "pe_draft"
    /\ \/ /\ trace' = Append(trace, PromptEv("draft", <<>>, "cancel"))
          /\ pc' = "ret"
          /\ msg' = msg
       \/ \E d \in DraftAnswers :
            /\ trace' = Append(trace, PromptEv("draft", <<>>, "value"))
            /\ msg' = d
            /\ pc' = IF Truthy(d) THEN "pe_enhance" ELSE "ret"
    /\ UNCHANGED <<call, callIn, callOut, cmd, args, options, config, statusOut, allChanges, groups,
                   gi, fi, loc, commitStart, exitCode>>

PeEnhance ==
    /\ pc = "pe_enhance"
    /\ generateText(<<>>, msg, CommitAiConfig(config), "pe_confirm", "ret")
    /\ UNCHANGED <<call, callIn, callOut, cmd, args, options, config, statusOut, allChanges, groups,
                   gi, fi, loc, commitStart, exitCode>>

PeConfirm ==
    /\ pc = "pe_confirm"
    /\ \E ans \in ConfirmAnswers :
         /\ trace' = Append(trace, PromptEv("confirm", msg, ans))
         /\ pc' = IF confirmCommitMessage(ans) THEN "pe_exec" ELSE "ret"
    /\ UNCHANGED <<call, callIn, callOut, cmd, args, options, config, statusOut, allChanges, groups,
                   gi, fi, msg, loc, commitStart, exitCode>>

PeExecute ==
    /\ pc = "pe_exec"
    /\ executeCommit(msg, "ret", <<OutEv("Enhanced commit created successfully")>>)
    /\ UNCHANGED <<call, callIn, callOut, cmd, args, options, config, statusOut, allChanges, groups,
                   gi, fi, msg, loc, commitStart, exitCode>>

\* ------------------------------------------------------------------ createInteractiveCommit
Cancelled(name) == <<PromptEv(name, <<>>, "cancel"), OutEv("Operation cancelled")>>

IType ==
    /\ pc = "i_type"
    /\ IF ~Truthy(options.type)
       THEN \/ /\ trace' = trace \o Cancelled("type")
               /\ pc' = "ret"
               /\ loc' = loc
            \/ \E t \in TypeChoices :
                 /\ trace' = Append(trace, PromptEv("type", <<>>, "value"))
                 /\ loc' = [loc EXCEPT !.type = t]
                 /\ pc' = "i_scope"
       ELSE /\ trace' = trace
            /\ loc' = [loc EXCEPT !.type = options.type]
            /\ pc' = "i_scope"
    /\ UNCHANGED <<call, callIn, callOut, cmd, args, options, config, statusOut, allChanges, groups,
                   gi, fi, msg, commitStart, exitCode>>

IScope ==
    /\ pc = "i_scope"
    /\ IF ~Truthy(options.scope)
       THEN \/ /\ trace' = trace \o Cancelled("scope")
               /\ pc' = "ret"
               /\ loc' = loc
            \/ \E t \in ScopeAnswers :
                 /\ trace' = Append(trace, PromptEv("scope", <<>>, "value"))
                 /\ loc' = [loc EXCEPT !.scope = t]
                 /\ pc' = "i_subject"
       ELSE /\ trace' = trace
            /\ loc' = [loc EXCEPT !.scope = options.scope]
            /\ pc' = "i_subject"
    /\ UNCHANGED <<call, callIn, callOut, cmd, args, options, config, statusOut, allChanges, groups,
                   gi, fi, msg, commitStart, exitCode>>

ISubject ==
    /\ pc = "i_subject"
    /\ \/ /\ trace' = trace \o Cancelled("subject")
          /\ pc' = "ret"
          /\ loc' = loc
       \/ \E t \in SubjectAnswers :
            /\ trace' = Append(trace, PromptEv("subject", <<>>, "value"))
            /\ loc' = [loc EXCEPT !.subject = t]
            /\ pc' = "i_breaking"
    /\ UNCHANGED <<call, callIn, callOut, cmd, args, options, config, statusOut, allChanges, groups,
                   gi, fi, msg, commitStart, exitCode>>

IBreaking ==
    /\ pc = "i_breaking"
    /\ IF ~options.breaking
       THEN \E ans \in ConfirmAnswers :
              IF isCancel(ans)
              THEN /\ trace' = trace \o Cancelled("breaking")
                   /\ pc' = "ret"
                   /\ loc' = loc
              ELSE /\ trace' = Append(trace, PromptEv("breaking", <<>>, ans))
                   /\ loc' = [loc EXCEPT !.breaking = (ans = "yes")]
                   /\ pc' = IF ans = "yes" THEN "i_desc" ELSE "i_exec"
       ELSE /\ trace' = trace
            /\ loc' = [loc EXCEPT !.breaking = TRUE]
            /\ pc' = "i_desc"
    /\ UNCHANGED <<call, callIn, callOut, cmd, args, options, config, statusOut, allChanges, groups,
                   gi, fi, msg, commitStart, exitCode>>

IDesc ==
    /\ pc = "i_desc"
    /\ \/ /\ trace' = trace \o Cancelled("breaking description")
          /\ pc' = "ret"
          /\ loc' = loc
       \/ \E t \in DescAnswers :
            /\ trace' = Append(trace, PromptEv("breaking description", <<>>, "value"))
            /\ loc' = [loc EXCEPT !.desc = t]
            /\ pc' = "i_exec"
    /\ UNCHANGED <<call, callIn, callOut, cmd, args, options, config, statusOut, allChanges, groups,
                   gi, fi, msg, commitStart, exitCode>>

IExecute ==
    /\ pc = "i_exec"
    /\ msg' = buildCommitMessage(loc.type, loc.scope, loc.subject, loc.breaking, loc.desc)
    /\ executeCommit(msg', "ret", <<OutEv("Interactive commit created successfully")>>)
    /\ UNCHANGED <<call, callIn, callOut, cmd, args, options, config, statusOut, allChanges, groups,
                   gi, fi, loc, commitStart, exitCode>>

\* ------------------------------------------------------------------ createCherryPickCommit
\* No caller reaches these steps: parseCommitArgs and selectCommitMode never
\* yield the mode "cherry-pick".  They are kept for the record and are not
\* part of Next.
CpHash ==
    /\ pc = "cp_hash"
    /\ \/ /\ trace' = trace \o <<PromptEv("hash", <<>>, "cancel"),
                                 OutEv("Cherry-pick cancelled")>>
          /\ pc' = "ret"
          /\ msg' = msg
       \/ \E h \in HashAnswers :
            /\ trace' = Append(trace, PromptEv("hash", <<>>, "value"))
            /\ msg' = h
            /\ pc' = "cp_confirm"
    /\ UNCHANGED <<call, callIn, callOut, cmd, args, options, config, statusOut, allChanges, groups,
                   gi, fi, loc, commitStart, exitCode>>

CpConfirm ==
    /\ pc = "cp_confirm"
    /\ \E ans \in ConfirmAnswers :
         /\ trace' = Append(trace, PromptEv("confirm pick", msg, ans))
         /\ pc' = IF ~ConfirmTruthy(ans) \/ isCancel(ans) THEN "ret" ELSE "cp_exec"
    /\ UNCHANGED <<call, callIn, callOut, cmd, args, options, config, statusOut, allChanges, groups,
                   gi, fi, msg, loc, commitStart, exitCode>>

CpExecute ==
    /\ pc = "cp_exec"
    /\ \E ok \in BOOLEAN :
         /\ trace' = Append(trace, GitEv("cherry-pick", msg, ok))
         /\ pc' = IF ok THEN "ret" ELSE "throw"
    /\ UNCHANGED <<call, callIn, callOut, cmd, args, options, config, statusOut, allChanges, groups,
                   gi, fi, msg, loc, commitStart, exitCode>>

\* ------------------------------------------------------------------ createAutoCommit
\* autoCommitAllChanges: getAllChanges, split into lines, group
AutoGetChanges ==
    /\ pc = "auto"
    /\ \/ /\ trace' = trace \o <<GitEv("status", <<>>, FALSE), OutEv("failed")>>
          /\ pc' = "throw"
          /\ UNCHANGED <<allChanges, groups, gi, fi>>
       \/ \E out \in StatusOutputs :
            /\ allChanges' = out
            /\ gi' = 1
            /\ fi' = 1
            /\ IF ~Truthy(Trim(out))
               THEN /\ trace' = trace \o <<GitEv("status", out, TRUE),
                                           OutEv("No changes to commit"),
                                           OutEv("Auto-commit completed successfully")>>
                    /\ groups' = <<>>
                    /\ pc' = "ret"
               ELSE /\ trace' = Append(trace, GitEv("status", out, TRUE))
                    /\ groups' = groupChangesByType(FilterNonEmpty(SplitLines(Trim(out))))
                    /\ pc' = "auto_stage"
    /\ UNCHANGED <<call, callIn, callOut, cmd, args, options, config, statusOut, msg, loc, commitStart,
                   exitCode>>

\* stageFiles(group.files): one `git add` per file, in order
AutoStage ==
    /\ pc = "auto_stage"
    /\ LET file == groups[gi].files[fi]
       IN \E ok \in BOOLEAN :
            IF ok
            THEN /\ trace' = Append(trace, GitEv("add", file, TRUE))
                 /\ fi' = fi + 1
                 /\ pc' = IF fi' > Len(groups[gi].files) THEN "auto_gen" ELSE "auto_stage"
            ELSE /\ trace' = trace \o <<GitEv("add", file, FALSE), OutEv("failed")>>
                 /\ fi' = fi
                 /\ pc' = "throw"
    /\ UNCHANGED <<call, callIn, callOut, cmd, args, options, config, statusOut, allChanges, groups,
                   gi, msg, loc, commitStart, exitCode>>

AutoGenerate ==
    /\ pc = "auto_gen"
    /\ generateAICommitMessage("auto_commit", "auto_commit")
    /\ UNCHANGED <<call, callIn, callOut, cmd, args, options, config, statusOut, allChanges, groups,
                   gi, fi, loc, commitStart, exitCode>>

\* A variant of the commit step of processGroupedCommits whose catch does not
\* rethrow: the loop goes on with the next group after a failed commit
AutoCommit_Swallow ==
    /\ pc = "auto_commit"
    /\ \E ok \in BOOLEAN :
         /\ trace' = trace \o <<GitEv("commit", msg, ok)>> \o
               (IF gi < Len(groups) THEN <<>>
                ELSE <<OutEv("Auto-commit completed successfully")>>)
         /\ gi' = gi + 1
         /\ fi' = 1
         /\ pc' = IF gi < Len(groups) THEN "auto_stage" ELSE "ret"
    /\ UNCHANGED <<call, callIn, callOut, cmd, args, options, config, statusOut, allChanges, groups,
                   msg, loc, commitStart, exitCode>>

\* where processGroupedCommits goes after the commit of group g succeeded
AfterGroup(g) == IF g < Len(groups) THEN "auto_stage" ELSE "ret"

AutoCommit ==
    /\ pc = "auto_commit"
    /\ \E ok \in BOOLEAN :
         IF ok
         THEN /\ trace' = trace \o <<GitEv("commit", msg, TRUE)>> \o
                    (IF AfterGroup(gi) = "ret"
                     THEN <<OutEv("Auto-commit completed successfully")>>
                     ELSE <<>>)
              /\ gi' = gi + 1
              /\ fi' = 1
              /\ pc' = AfterGroup(gi)
         ELSE /\ trace' = trace \o <<GitEv("commit", msg, FALSE), OutEv("failed")>>
              /\ gi' = gi
              /\ fi' = fi
              /\ pc' = "throw"
    /\ UNCHANGED <<call, callIn, callOut, cmd, args, options, config, statusOut, allChanges, groups,
                   msg, loc, commitStart, exitCode>>


\* ------------------------------------------------------------------ getGitStatusInfo
\* the six git calls of getGitStatusInfo, `out` being the porcelain status
StatusInfoEvents(out) ==
    <<GitEv("branch --show-current", <<>>, TRUE), GitEv("log", <<>>, TRUE),
      GitEv("remote get-url", <<>>, TRUE), GitEv("status", out, TRUE),
      GitEv("rev-list", <<>>, TRUE), GitEv("rev-list", <<>>, TRUE)>>

StatusInfoFailure == <<GitEv("branch --show-current", <<>>, FALSE), OutEv("failed")>>

StartsWithUntracked(line) == Len(line) >= 2 /\ line[1] = "?" /\ line[2] = "?"

IsUntrackedLine(line) == Truthy(Trim(line)) /\ StartsWithUntracked(line)

RECURSIVE MapSubstring3(_)
MapSubstring3(ls) ==
    IF ls = <<>> THEN <<>>
    ELSE <<SubstringFrom(Head(ls), 3)>> \o MapSubstring3(Tail(ls))

\* statusOutput.split("\n").filter(untracked).map(line => line.substring(3))
UntrackedItems(out) == MapSubstring3(SelectSeq(SplitLines(out), IsUntrackedLine))

\* what a multiselect over `items` may return besides the cancel symbol
Selections(items) ==
    {<<>>, items} \cup {<<items[i]>> : i \in 1..Len(items)}

\* ------------------------------------------------------------------ cleanCommand
CleanTarget(ans) ==
    CASE ans = "untracked" -> "cl_untracked"
      [] ans = "gc" -> "cl_gc"
      [] ans = "prune" -> "cl_prune"
      [] OTHER -> "cl_fsck"

Clean ==
    /\ pc = "clean"
    /\ \E ans \in {"untracked", "gc", "prune", "fsck", "cancel"} :
         IF isCancel(ans)
         THEN /\ trace' = trace \o <<PromptEv("clean type", <<>>, ans),
                                     OutEv("Clean cancelled")>>
              /\ pc' = "ret"
         ELSE /\ trace' = Append(trace, PromptEv("clean type", <<>>, ans))
              /\ pc' = CleanTarget(ans)
    /\ UNCHANGED <<call, callIn, callOut, cmd, args, options, config, statusOut, allChanges, groups,
                   gi, fi, msg, loc, commitStart, exitCode>>

\* performUntrackedClean up to its select
ClUntracked ==
    /\ pc = "cl_untracked"
    /\ \/ /\ trace' = trace \o StatusInfoFailure
          /\ pc' = "ret"
          /\ loc' = loc
       \/ \E out \in StatusOutputs :
            /\ loc' = [loc EXCEPT !.sel = UntrackedItems(out)]
            /\ IF Len(loc'.sel) = 0
               THEN /\ trace' = trace \o StatusInfoEvents(out) \o
                                <<OutEv("No untracked files or directories to clean")>>
                    /\ pc' = "ret"
               ELSE /\ trace' = trace \o StatusInfoEvents(out)
                    /\ pc' = "cl_op"
    /\ UNCHANGED <<call, callIn, callOut, cmd, args, options, config, statusOut, allChanges, groups,
                   gi, fi, msg, commitStart, exitCode>>

ClOperation ==
    /\ pc = "cl_op"
    /\ \E ans \in {"interactive", "all", "dry-run", "cancel"} :
         IF isCancel(ans)
         THEN /\ trace' = trace \o <<PromptEv("clean operation", <<>>, ans),
                                     OutEv("Clean cancelled")>>
              /\ pc' = "ret"
         ELSE /\ trace' = Append(trace, PromptEv("clean operation", <<>>, ans))
              /\ pc' = CASE ans = "interactive" -> "cl_inter"
                         [] ans = "all" -> "cl_all"
                         [] OTHER -> "cl_dry"
    /\ UNCHANGED <<call, callIn, callOut, cmd, args, options, config, statusOut, allChanges, groups,
                   gi, fi, msg, loc, commitStart, exitCode>>

\* the shape shared by the confirmations of the clean, worktree and release
\* handlers: `if (!answer) { print; return }`, then the guarded git command,
\* whose failure the handler's catch prints and swallows
Proceeds(ans) == ConfirmTruthy(ans)

\* A variant of ConfirmThen that runs the git command first and asks afterwards
ConfirmThen_RunsFirst(name, shown, op, arg, cancelText, next) ==
    \E ans \in ConfirmAnswers, ok \in BOOLEAN :
        /\ trace' = trace \o <<GitEv(op, arg, ok), PromptEv(name, shown, ans)>>
                          \o (IF ok THEN <<>> ELSE <<OutEv("failed")>>)
        /\ pc' = IF ok /\ Proceeds(ans) THEN next ELSE "ret"

ConfirmThen(name, shown, op, arg, cancelText, next) ==
    \E ans \in ConfirmAnswers :
        IF ~Proceeds(ans)
        THEN /\ trace' = trace \o <<PromptEv(name, shown, ans), OutEv(cancelText)>>
             /\ pc' = "ret"
        ELSE \E ok \in BOOLEAN :
               /\ trace' = trace \o <<PromptEv(name, shown, ans), GitEv(op, arg, ok)>>
                                 \o (IF ok THEN <<>> ELSE <<OutEv("failed")>>)
               /\ pc' = IF ok THEN next ELSE "ret"

\* performInteractiveClean
ClInteractive ==
    /\ pc = "cl_inter"
    /\ \/ /\ trace' = trace \o <<PromptEv("clean items", <<>>, "cancel"),
                                 OutEv("Clean cancelled")>>
          /\ pc' = "ret"
          /\ loc' = loc
       \/ \E sel \in Selections(loc.sel) :
            /\ loc' = [loc EXCEPT !.sel = sel]
            /\ IF Len(sel) = 0
               THEN /\ trace' = trace \o <<PromptEv("clean items", <<>>, "value"),
                                           OutEv("No items selected for cleaning")>>
                    /\ pc' = "ret"
               ELSE /\ trace' = Append(trace, PromptEv("clean items", <<>>, "value"))
                    /\ pc' = "cl_inter_confirm"
    /\ UNCHANGED <<call, callIn, callOut, cmd, args, options, config, statusOut, allChanges, groups,
                   gi, fi, msg, commitStart, exitCode>>

ClInteractiveConfirm ==
    /\ pc = "cl_inter_confirm"
    /\ ConfirmThen("confirm clean", <<>>, "clean", loc.sel, "Clean cancelled", "ret")
    /\ UNCHANGED <<call, callIn, callOut, cmd, args, options, config, statusOut, allChanges, groups,
                   gi, fi, msg, loc, commitStart, exitCode>>

\* performAllClean
ClAll ==
    /\ pc = "cl_all"
    /\ ConfirmThen("confirm clean", <<>>, "clean", <<"-", "f", "d">>, "Clean cancelled",
                   "ret")
    /\ UNCHANGED <<call, callIn, callOut, cmd, args, options, config, statusOut, allChanges, groups,
                   gi, fi, msg, loc, commitStart, exitCode>>

\* performDryRunClean: git clean -n, the question, the fresh status
ClDryRun ==
    /\ pc = "cl_dry"
    /\ \/ /\ trace' = trace \o <<GitEv("clean -n", <<>>, FALSE), OutEv("failed")>>
          /\ pc' = "ret"
          /\ loc' = loc
       \/ \E ans \in ConfirmAnswers :
            LET done == trace \o <<GitEv("clean -n", <<>>, TRUE),
                                   PromptEv("proceed", <<>>, ans)>>
            IN IF ~ConfirmTruthy(ans)
               THEN /\ trace' = done
                    /\ pc' = "ret"
                    /\ loc' = loc
               ELSE \/ /\ trace' = done \o StatusInfoFailure
                       /\ pc' = "ret"
                       /\ loc' = loc
                    \/ \E out \in StatusOutputs :
                         /\ trace' = done \o StatusInfoEvents(out)
                         /\ loc' = [loc EXCEPT !.sel = UntrackedItems(out)]
                         /\ pc' = "cl_all"
    /\ UNCHANGED <<call, callIn, callOut, cmd, args, options, config, statusOut, allChanges, groups,
                   gi, fi, msg, commitStart, exitCode>>

\* performGarbageCollection
ClGc ==
    /\ pc = "cl_gc"
    /\ ConfirmThen("confirm gc", <<>>, "gc", <<>>, "Garbage collection cancelled", "ret")
    /\ UNCHANGED <<call, callIn, callOut, cmd, args, options, config, statusOut, allChanges, groups,
                   gi, fi, msg, loc, commitStart, exitCode>>

\* performPruneObjects
ClPrune ==
    /\ pc = "cl_prune"
    /\ ConfirmThen("confirm prune", <<>>, "prune", <<>>, "Prune cancelled", "ret")
    /\ UNCHANGED <<call, callIn, callOut, cmd, args, options, config, statusOut, allChanges, groups,
                   gi, fi, msg, loc, commitStart, exitCode>>

\* performVerifyRepository
ClFsck ==
    /\ pc = "cl_fsck"
    /\ \E ok \in BOOLEAN :
         /\ trace' = trace \o <<GitEv("fsck", <<>>, ok)>>
                           \o (IF ok THEN <<>> ELSE <<OutEv("failed")>>)
         /\ pc' = "ret"
    /\ UNCHANGED <<call, callIn, callOut, cmd, args, options, config, statusOut, allChanges, groups,
                   gi, fi, msg, loc, commitStart, exitCode>>

\* ------------------------------------------------------------------ worktreeCommand
PathAnswers == {<<".", ".", "/", "w">>}
BranchAnswers == {<<"f">>}

Worktree ==
    /\ pc = "worktree"
    /\ \E listed \in BOOLEAN, ans \in {"add", "remove", "cancel"} :
         /\ trace' = trace \o <<GitEv("worktree list", <<>>, listed),
                                PromptEv("worktree action", <<>>, ans)>>
                           \o (IF isCancel(ans)
                               THEN <<OutEv("Worktree operation cancelled")>>
                               ELSE <<>>)
         /\ pc' = CASE ans = "add" -> "wt_add"
                    [] ans = "remove" -> "wt_remove"
                    [] OTHER -> "ret"
    /\ UNCHANGED <<call, callIn, callOut, cmd, args, options, config, statusOut, allChanges, groups,
                   gi, fi, msg, loc, commitStart, exitCode>>

WtAdd ==
    /\ pc = "wt_add"
    /\ \/ /\ trace' = trace \o <<PromptEv("worktree branch", <<>>, "cancel"),
                                 OutEv("Worktree creation cancelled")>>
       \/ /\ trace' = trace \o <<PromptEv("worktree branch", <<>>, "value"),
                                 PromptEv("worktree path", <<>>, "cancel"),
                                 OutEv("Worktree creation cancelled")>>
       \/ \E b \in BranchAnswers, p \in PathAnswers, ok \in BOOLEAN :
            trace' = trace \o <<PromptEv("worktree branch", <<>>, "value"),
                                PromptEv("worktree path", <<>>, "value"),
                                GitEv("worktree add", p \o <<" ">> \o b, ok)>>
                           \o (IF ok THEN <<>> ELSE <<OutEv("failed")>>)
    /\ pc' = "ret"
    /\ UNCHANGED <<call, callIn, callOut, cmd, args, options, config, statusOut, allChanges, groups,
                   gi, fi, msg, loc, commitStart, exitCode>>

WtRemove ==
    /\ pc = "wt_remove"
    /\ \/ /\ trace' = trace \o <<PromptEv("worktree path", <<>>, "cancel"),
                                 OutEv("Worktree removal cancelled")>>
          /\ pc' = "ret"
          /\ msg' = msg
       \/ \E p \in PathAnswers :
            /\ trace' = Append(trace, PromptEv("worktree path", <<>>, "value"))
            /\ msg' = p
            /\ pc' = "wt_confirm"
    /\ UNCHANGED <<call, callIn, callOut, cmd, args, options, config, statusOut, allChanges, groups,
                   gi, fi, loc, commitStart, exitCode>>

WtConfirm ==
    /\ pc = "wt_confirm"
    /\ ConfirmThen("confirm remove", msg, "worktree remove", msg,
                   "Worktree removal cancelled", "ret")
    /\ UNCHANGED <<call, callIn, callOut, cmd, args, options, config, statusOut, allChanges, groups,
                   gi, fi, msg, loc, commitStart, exitCode>>


\* ------------------------------------------------------------------ releaseCommand
\* A tag the version regular expressions match is <<major, minor, patch,
\* pre-release type ("" when absent), pre-release number>>; <<>> is a tag
\* they do not match.
NoVersion == <<>>
DefaultTag == <<0, 0, 0, "", 0>>
LatestTags == {DefaultTag, <<1, 2, 3, "beta", 2>>, NoVersion}
CustomVersions == {<<9, 9, 9, "", 0>>}

\* the major / minor / patch branch of releaseCommand
BumpVersion(tag, bumpType) ==
    CASE bumpType = "major" -> <<tag[1] + 1, 0, 0, "", 0>>
      [] bumpType = "minor" -> <<tag[1], tag[2] + 1, 0, "", 0>>
      [] OTHER -> <<tag[1], tag[2], tag[3] + 1, "", 0>>

\* the pre-release branch of releaseCommand
PreTypeOf(tag) == IF tag[4] /= "" THEN tag[4] ELSE "alpha"

PreBumpVersion(tag, preReleaseType) ==
    IF preReleaseType = PreTypeOf(tag)
    THEN <<tag[1], tag[2], tag[3], preReleaseType, tag[5] + 1>>
    ELSE <<tag[1], tag[2], tag[3] + 1, preReleaseType, 1>>

Release ==
    /\ pc = "release"
    /\ IF HasArg(args, {"--rollback", "-r"})
       THEN /\ pc' = "rb"
            /\ trace' = trace
            /\ loc' = loc
       ELSE LET dry == HasArg(args, {"--dry-run", "-d"})
            IN \/ /\ trace' = trace \o <<GitEv("branch --show-current", <<>>, FALSE),
                                         OutEv("failed")>>
                  /\ pc' = "ret"
                  /\ loc' = loc
               \/ \E tag \in LatestTags, clean \in BOOLEAN :
                    /\ trace' = trace \o
                         <<GitEv("branch --show-current", <<>>, TRUE),
                           GitEv("describe", <<>>, tag /= DefaultTag),
                           GitEv("status", <<>>, TRUE)>>
                         \o (IF clean THEN <<>> ELSE <<OutEv("Repository is not clean")>>)
                    /\ loc' = [loc EXCEPT !.latestTag = tag, !.dryRun = dry]
                    /\ pc' = IF clean THEN "rel_bump" ELSE "ret"
    /\ UNCHANGED <<call, callIn, callOut, cmd, args, options, config, statusOut, allChanges, groups,
                   gi, fi, msg, commitStart, exitCode>>

\* the two selects, then the two isCancel checks
RelBump ==
    /\ pc = "rel_bump"
    /\ \E bump \in {"patch", "minor", "major", "pre", "custom", "cancel"},
          tagType \in {"annotated", "lightweight", "cancel"} :
         /\ trace' = trace \o <<PromptEv("bump type", <<>>, bump),
                                PromptEv("tag type", <<>>, tagType)>>
                           \o (IF isCancel(tagType) \/ isCancel(bump)
                               THEN <<OutEv("Release cancelled")>>
                               ELSE <<>>)
         /\ loc' = [loc EXCEPT !.bumpType = bump, !.tagType = tagType]
         /\ pc' = IF isCancel(tagType) \/ isCancel(bump) THEN "ret" ELSE "rel_version"
    /\ UNCHANGED <<call, callIn, callOut, cmd, args, options, config, statusOut, allChanges, groups,
                   gi, fi, msg, commitStart, exitCode>>

RelVersion ==
    /\ pc = "rel_version"
    /\ IF loc.bumpType = "custom"
       THEN \/ /\ trace' = trace \o <<PromptEv("custom version", <<>>, "cancel"),
                                      OutEv("Release cancelled")>>
               /\ pc' = "ret"
               /\ loc' = loc
            \/ \E v \in CustomVersions :
                 /\ trace' = Append(trace, PromptEv("custom version", <<>>, "value"))
                 /\ loc' = [loc EXCEPT !.newVersion = v]
                 /\ pc' = "rel_branch"
       ELSE IF loc.latestTag = NoVersion
       THEN /\ trace' = Append(trace, OutEv("Could not parse current version"))
            /\ pc' = "ret"
            /\ loc' = loc
       ELSE IF loc.bumpType = "pre"
       THEN \E pre \in {"alpha", "beta", "rc", "cancel"} :
              IF isCancel(pre)
              THEN /\ trace' = trace \o <<PromptEv("pre-release type", <<>>, pre),
                                          OutEv("Release cancelled")>>
                   /\ pc' = "ret"
                   /\ loc' = loc
              ELSE /\ trace' = Append(trace, PromptEv("pre-release type", <<>>, pre))
                   /\ loc' = [loc EXCEPT !.newVersion = PreBumpVersion(loc.latestTag, pre)]
                   /\ pc' = "rel_branch"
       ELSE /\ trace' = trace
            /\ loc' = [loc EXCEPT !.newVersion = BumpVersion(loc.latestTag, loc.bumpType)]
            /\ pc' = "rel_branch"
    /\ UNCHANGED <<call, callIn, callOut, cmd, args, options, config, statusOut, allChanges, groups,
                   gi, fi, msg, commitStart, exitCode>>

\* "Create and switch to a release branch?": a failure of the checkout is
\* printed by the inner catch and the handler goes on
RelBranch ==
    /\ pc = "rel_branch"
    /\ \E ans \in ConfirmAnswers :
         /\ loc' = [loc EXCEPT !.createBranch = ans]
         /\ IF ConfirmTruthy(ans)
            THEN \E ok \in BOOLEAN :
                   trace' = trace \o <<PromptEv("create branch", <<>>, ans),
                                       GitEv("checkout -b", loc.newVersion, ok)>>
            ELSE trace' = Append(trace, PromptEv("create branch", <<>>, ans))
    /\ pc' = "rel_confirm"
    /\ UNCHANGED <<call, callIn, callOut, cmd, args, options, config, statusOut, allChanges, groups,
                   gi, fi, msg, commitStart, exitCode>>

\* "Create release <version>?", the dry-run exit, then the tag
RelConfirm ==
    /\ pc = "rel_confirm"
    /\ \E ans \in ConfirmAnswers :
         IF ~Proceeds(ans)
         THEN /\ trace' = trace \o <<PromptEv("confirm release", loc.newVersion, ans),
                                     OutEv("Release cancelled")>>
              /\ pc' = "ret"
         ELSE IF loc.dryRun
         THEN /\ trace' = trace \o <<PromptEv("confirm release", loc.newVersion, ans),
                                     OutEv("Dry run")>>
              /\ pc' = "ret"
         ELSE \E ok \in BOOLEAN :
                /\ trace' = trace \o <<PromptEv("confirm release", loc.newVersion, ans),
                                       GitEv("tag", loc.newVersion, ok)>>
                                  \o (IF ok THEN <<>> ELSE <<OutEv("failed")>>)
                /\ pc' = IF ok THEN "rel_changelog" ELSE "ret"
    /\ UNCHANGED <<call, callIn, callOut, cmd, args, options, config, statusOut, allChanges, groups,
                   gi, fi, msg, loc, commitStart, exitCode>>

RelChangelog ==
    /\ pc = "rel_changelog"
    /\ \E ans \in ConfirmAnswers :
         IF ConfirmTruthy(ans)
         THEN \E ok \in BOOLEAN :
                trace' = trace \o <<PromptEv("changelog", <<>>, ans),
                                    GitEv("log", <<>>, ok)>>
         ELSE trace' = Append(trace, PromptEv("changelog", <<>>, ans))
    /\ pc' = "rel_push"
    /\ UNCHANGED <<call, callIn, callOut, cmd, args, options, config, statusOut, allChanges, groups,
                   gi, fi, msg, loc, commitStart, exitCode>>

RelPush ==
    /\ pc = "rel_push"
    /\ \E ans \in ConfirmAnswers :
         IF ConfirmTruthy(ans)
         THEN \E ok \in BOOLEAN :
                /\ trace' = trace \o <<PromptEv("push tag", <<>>, ans),
                                       GitEv("push", loc.newVersion, ok)>>
                                  \o (IF ok THEN <<>> ELSE <<OutEv("failed")>>)
                /\ pc' = IF ok THEN "rel_offer" ELSE "ret"
         ELSE /\ trace' = Append(trace, PromptEv("push tag", <<>>, ans))
              /\ pc' = "rel_offer"
    /\ UNCHANGED <<call, callIn, callOut, cmd, args, options, config, statusOut, allChanges, groups,
                   gi, fi, msg, loc, commitStart, exitCode>>

\* the rollback hint, then "Push release branch to remote?"
RelOffer ==
    /\ pc = "rel_offer"
    /\ \E offer \in ConfirmAnswers :
         LET done == trace \o <<OutEv("Release created successfully"),
                                PromptEv("keep rollback", <<>>, offer)>>
         IN IF ConfirmTruthy(loc.createBranch)
            THEN \E ans \in ConfirmAnswers :
                   IF ConfirmTruthy(ans)
                   THEN \E ok \in BOOLEAN :
                          trace' = done \o <<PromptEv("push branch", <<>>, ans),
                                             GitEv("push", <<"release/">>, ok)>>
                   ELSE trace' = Append(done, PromptEv("push branch", <<>>, ans))
            ELSE trace' = done
    /\ pc' = "ret"
    /\ UNCHANGED <<call, callIn, callOut, cmd, args, options, config, statusOut, allChanges, groups,
                   gi, fi, msg, loc, commitStart, exitCode>>

\* rollbackRelease
TagLists == {<<>>, <<<<1, 2, 3, "", 0>>>>}

Rollback ==
    /\ pc = "rb"
    /\ \/ /\ trace' = trace \o <<GitEv("tag --sort", <<>>, FALSE), OutEv("failed")>>
          /\ pc' = "ret"
          /\ loc' = loc
       \/ \E tags \in TagLists :
            IF Len(tags) = 0
            THEN /\ trace' = trace \o <<GitEv("tag --sort", <<>>, TRUE),
                                        OutEv("No tags found in this repository")>>
                 /\ pc' = "ret"
                 /\ loc' = loc
            ELSE \/ /\ trace' = trace \o <<GitEv("tag --sort", <<>>, TRUE),
                                           PromptEv("rollback tag", <<>>, "cancel"),
                                           OutEv("Rollback cancelled")>>
                    /\ pc' = "ret"
                    /\ loc' = loc
                 \/ \E i \in 1..Len(tags) :
                      /\ trace' = trace \o <<GitEv("tag --sort", <<>>, TRUE),
                                             PromptEv("rollback tag", <<>>, "value")>>
                      /\ loc' = [loc EXCEPT !.newVersion = tags[i]]
                      /\ pc' = "rb_confirm"
    /\ UNCHANGED <<call, callIn, callOut, cmd, args, options, config, statusOut, allChanges, groups,
                   gi, fi, msg, commitStart, exitCode>>

RbConfirm ==
    /\ pc = "rb_confirm"
    /\ ConfirmThen("confirm rollback", loc.newVersion, "tag -d", loc.newVersion,
                   "Rollback cancelled", "rb_remote")
    /\ UNCHANGED <<call, callIn, callOut, cmd, args, options, config, statusOut, allChanges, groups,
                   gi, fi, msg, loc, commitStart, exitCode>>

RbRemote ==
    /\ pc = "rb_remote"
    /\ \E ans \in ConfirmAnswers :
         IF ConfirmTruthy(ans)
         THEN \E ok \in BOOLEAN :
                trace' = trace \o <<PromptEv("delete remote tag", <<>>, ans),
                                    GitEv("push --delete", loc.newVersion, ok)>>
                               \o (IF ok THEN <<>> ELSE <<OutEv("failed")>>)
         ELSE trace' = Append(trace, PromptEv("delete remote tag", <<>>, ans))
    /\ pc' = "ret"
    /\ UNCHANGED <<call, callIn, callOut, cmd, args, options, config, statusOut, allChanges, groups,
                   gi, fi, msg, loc, commitStart, exitCode>>


\* ------------------------------------------------------------------ stageUnstageCommand
\* line.length > 3 ? line.substring(3) : line
StripStatus(line) == IF Len(line) > 3 THEN SubstringFrom(line, 3) ELSE line

RECURSIVE MapStripStatus(_)
MapStripStatus(ls) ==
    IF ls = <<>> THEN <<>>
    ELSE <<StripStatus(Head(ls))>> \o MapStripStatus(Tail(ls))

NonBlank(t) == Len(Trim(t)) > 0

ChangedFiles(status) ==
    SelectSeq(MapStripStatus(SelectSeq(SplitLines(status), NonBlank)), NonBlank)

StagedFiles(stagedStatus) == SelectSeq(SplitLines(stagedStatus), NonBlank)

\* a multiselect with required: true
RequiredSelections(items) == Selections(items) \ {<<>>}

Staging ==
    /\ pc = "staging"
    /\ \/ /\ trace' = trace \o StatusInfoFailure
          /\ pc' = "ret"
          /\ loc' = loc
       \/ \E shown \in HasChangesOutputs :
            /\ trace' = trace \o StatusInfoEvents(shown)
                              \o <<GitEv("status", <<>>, FALSE)>>
            /\ pc' = "throw"
            /\ loc' = loc
       \/ \E out \in StatusOutputs, staged \in StagedOutputs :
            /\ trace' = trace \o StatusInfoEvents(out)
                              \o <<GitEv("status", out, TRUE),
                                   GitEv("diff --name-only --cached", staged, TRUE)>>
                              \o (IF Len(ChangedFiles(out)) = 0 /\ Len(StagedFiles(staged)) = 0
                                  THEN <<OutEv("No changes to stage or unstage")>>
                                  ELSE <<>>)
            /\ loc' = [loc EXCEPT !.sel = ChangedFiles(out), !.staged = StagedFiles(staged)]
            /\ pc' = IF Len(ChangedFiles(out)) = 0 /\ Len(StagedFiles(staged)) = 0
                     THEN "ret"
                     ELSE "st_action"
    /\ UNCHANGED <<call, callIn, callOut, cmd, args, options, config, statusOut, allChanges, groups,
                   gi, fi, msg, commitStart, exitCode>>

\* the files each action works on
ActionFiles(action) ==
    CASE action = "stage" -> loc.sel
      [] action = "unstage" -> loc.staged
      [] action = "reset" -> loc.sel \o loc.staged
      [] OTHER -> loc.sel

StAction ==
    /\ pc = "st_action"
    /\ \E ans \in {"stage", "unstage", "reset", "restore", "cancel"} :
         IF isCancel(ans)
         THEN /\ trace' = trace \o <<PromptEv("staging action", <<>>, ans),
                                     OutEv("Staging cancelled")>>
              /\ pc' = "ret"
              /\ loc' = loc
         ELSE IF Len(ActionFiles(ans)) = 0
         THEN /\ trace' = trace \o <<PromptEv("staging action", <<>>, ans),
                                     OutEv("No files")>>
              /\ pc' = "ret"
              /\ loc' = loc
         ELSE /\ trace' = Append(trace, PromptEv("staging action", <<>>, ans))
              /\ loc' = [loc EXCEPT !.sel = ActionFiles(ans)]
              /\ pc' = CASE ans = "stage" -> "st_stage"
                         [] ans = "unstage" -> "st_unstage"
                         [] ans = "reset" -> "st_reset"
                         [] OTHER -> "st_restore"
    /\ UNCHANGED <<call, callIn, callOut, cmd, args, options, config, statusOut, allChanges, groups,
                   gi, fi, msg, commitStart, exitCode>>

\* stage: multiselect, git add, "commit the staged files now?", commitCommand([])
StStage ==
    /\ pc = "st_stage"
    /\ \/ /\ trace' = trace \o <<PromptEv("files to stage", <<>>, "cancel"),
                                 OutEv("Stage cancelled")>>
          /\ pc' = "ret"
          /\ args' = args
       \/ \E sel \in RequiredSelections(loc.sel) :
            \/ /\ trace' = trace \o <<PromptEv("files to stage", <<>>, "value"),
                                      GitEv("add", sel, FALSE)>>
               /\ pc' = "throw"
               /\ args' = args
            \/ \E ans \in ConfirmAnswers :
                 /\ trace' = trace \o <<PromptEv("files to stage", <<>>, "value"),
                                        GitEv("add", sel, TRUE),
                                        PromptEv("commit now", <<>>, ans)>>
                 /\ IF ~isCancel(ans) /\ ans = "yes"
                    THEN /\ pc' = "commit"
                         /\ args' = <<>>
                    ELSE /\ pc' = "ret"
                         /\ args' = args
    /\ UNCHANGED <<call, callIn, callOut, cmd, options, config, statusOut, allChanges, groups,
                   gi, fi, msg, loc, commitStart, exitCode>>

StUnstage ==
    /\ pc = "st_unstage"
    /\ \/ /\ trace' = trace \o <<PromptEv("files to unstage", <<>>, "cancel"),
                                 OutEv("Unstage cancelled")>>
          /\ pc' = "ret"
       \/ \E sel \in RequiredSelections(loc.sel), ok \in BOOLEAN :
            /\ trace' = trace \o <<PromptEv("files to unstage", <<>>, "value"),
                                   GitEv("reset", sel, ok)>>
            /\ pc' = IF ok THEN "ret" ELSE "throw"
    /\ UNCHANGED <<call, callIn, callOut, cmd, args, options, config, statusOut, allChanges, groups,
                   gi, fi, msg, loc, commitStart, exitCode>>

\* the confirmations of the reset and restore actions
Declined(ans) == ~ConfirmTruthy(ans) \/ isCancel(ans)

StReset ==
    /\ pc = "st_reset"
    /\ \/ /\ trace' = trace \o <<PromptEv("files to reset", <<>>, "cancel"),
                                 OutEv("Reset cancelled")>>
          /\ pc' = "ret"
       \/ \E sel \in RequiredSelections(loc.sel), ans \in ConfirmAnswers :
            LET asked == trace \o <<PromptEv("files to reset", <<>>, "value"),
                                    PromptEv("confirm reset", <<>>, ans)>>
            IN IF Declined(ans)
               THEN /\ trace' = Append(asked, OutEv("Reset cancelled"))
                    /\ pc' = "ret"
               ELSE \/ /\ trace' = Append(asked, GitEv("reset", sel, FALSE))
                       /\ pc' = "throw"
                    \/ \E ok \in BOOLEAN :
                         /\ trace' = asked \o <<GitEv("reset", sel, TRUE),
                                                GitEv("restore", sel, ok)>>
                         /\ pc' = IF ok THEN "ret" ELSE "throw"
    /\ UNCHANGED <<call, callIn, callOut, cmd, args, options, config, statusOut, allChanges, groups,
                   gi, fi, msg, loc, commitStart, exitCode>>

StRestore ==
    /\ pc = "st_restore"
    /\ \/ /\ trace' = trace \o <<PromptEv("files to restore", <<>>, "cancel"),
                                 OutEv("Restore cancelled")>>
          /\ pc' = "ret"
       \/ \E sel \in RequiredSelections(loc.sel), ans \in ConfirmAnswers :
            LET asked == trace \o <<PromptEv("files to restore", <<>>, "value"),
                                    PromptEv("confirm restore", <<>>, ans)>>
            IN IF Declined(ans)
               THEN /\ trace' = Append(asked, OutEv("Restore cancelled"))
                    /\ pc' = "ret"
               ELSE \E ok \in BOOLEAN :
                      /\ trace' = Append(asked, GitEv("restore", sel, ok))
                      /\ pc' = IF ok THEN "ret" ELSE "throw"
    /\ UNCHANGED <<call, callIn, callOut, cmd, args, options, config, statusOut, allChanges, groups,
                   gi, fi, msg, loc, commitStart, exitCode>>

\* ------------------------------------------------------------------ specification
Next ==
    \/ Main \/ MainLegacy \/ MainExit \/ MainCatch
    \/ CommitEnter \/ CheckChanges \/ DirectCommit \/ SelectMode
    \/ AiStaged \/ AiGenerate \/ AiConfirm \/ AiExecute
    \/ PeDraft \/ PeEnhance \/ PeConfirm \/ PeExecute
    \/ IType \/ IScope \/ ISubject \/ IBreaking \/ IDesc \/ IExecute
    \/ AutoGetChanges \/ AutoStage \/ AutoGenerate \/ AutoCommit
    \/ Clean \/ ClUntracked \/ ClOperation \/ ClInteractive \/ ClInteractiveConfirm
    \/ ClAll \/ ClDryRun \/ ClGc \/ ClPrune \/ ClFsck
    \/ Worktree \/ WtAdd \/ WtRemove \/ WtConfirm
    \/ Release \/ RelBump \/ RelVersion \/ RelBranch \/ RelConfirm \/ RelChangelog
    \/ RelPush \/ RelOffer \/ Rollback \/ RbConfirm \/ RbRemote
    \/ Staging \/ StAction \/ StStage \/ StUnstage \/ StReset \/ StRestore

Spec == Init /\ [][Next]_vars


\* ------------------------------------------------------------------ single calls
\* One call of one function: `call` names it, `callIn` holds its arguments,
\* `callOut` receives what it returns.

\* ------------------------------------------------------------------ status display
\* parseGitStatusFiles(statusOutput): status, filename and description of
\* every non-empty line ("" is the default description of the switch)
parseGitStatusFiles(statusOutput) ==
    LET files == FilterNonEmpty(SplitLines(statusOutput))
        Description(status) ==
            CASE status = <<"?", "?">> -> "(untracked)"
              [] status = <<" ", "M">> -> "(modified)"
              [] status = <<"M", " ">> -> "(staged)"
              [] status = <<"A", " ">> -> "(added)"
              [] status = <<"D", " ">> -> "(deleted)"
              [] status = <<"M", "M">> -> "(modified & staged)"
              [] OTHER -> ""
    IN [i \in 1..Len(files) |->
          [status |-> Substring(files[i], 0, 2),
           filename |-> SubstringFrom(files[i], 3),
           description |-> Description(Substring(files[i], 0, 2))]]

\* displayFileChangesInColumns(fileStatuses): the four filters of statusGroups;
\* every file of a group is printed under the group's title.  A status has at
\* most two characters, so startsWith of a two-character prefix is equality.
displayFileChangesInColumns(fileStatuses) ==
    LET Staged(f) == f.status \in {<<"M", " ">>, <<"A", " ">>, <<"D", " ">>}
        Modified(f) == f.status \in {<<" ", "M">>, <<" ", "D">>}
        Untracked(f) == f.status = <<"?", "?">>
        Mixed(f) == f.status \in {<<"M", "M">>, <<"M", "D">>, <<"A", "M">>}
    IN [staged |-> SelectSeq(fileStatuses, Staged),
        modified |-> SelectSeq(fileStatuses, Modified),
        untracked |-> SelectSeq(fileStatuses, Untracked),
        mixed |-> SelectSeq(fileStatuses, Mixed)]

\* ------------------------------------------------------------------ git grep
\* parseInt(lineNum, 10) of a text of decimal digits
RECURSIVE parseInt(_)
parseInt(digits) ==
    IF digits = <<>> THEN 0
    ELSE 10 * parseInt(SubSeq(digits, 1, Len(digits) - 1))
         + (CHOOSE d \in 0..9 : ToString(d) = digits[Len(digits)])

\* parseGitGrepOutput(output).  A line matches /^([^:]+):(\d+):(.*)$/ when its
\* first colon is not its first character, digits and a colon follow, and no
\* character of the rest is a line terminator, which `.` does not match.
parseGitGrepOutput(output) ==
    LET Digits == {ToString(d) : d \in 0..9}
        Colons(line) == {k \in 1..Len(line) : line[k] = ":"}
        P(line) == CHOOSE p \in Colons(line) : \A k \in Colons(line) : p <= k
        Q(line) == CHOOSE q \in Colons(line) \ {P(line)} :
                       \A k \in Colons(line) \ {P(line)} : q <= k
        Matches(line) ==
            /\ Truthy(Trim(line))
            /\ Cardinality(Colons(line)) >= 2
            /\ P(line) > 1
            /\ Q(line) > P(line) + 1
            /\ \A k \in (P(line) + 1)..(Q(line) - 1) : line[k] \in Digits
            /\ \A k \in (Q(line) + 1)..Len(line) : line[k] \notin {"\n", "\r"}
        Hit(line) ==
            LET content == Trim(SubSeq(line, Q(line) + 1, Len(line)))
            IN [file |-> SubSeq(line, 1, P(line) - 1),
                line |-> parseInt(SubSeq(line, P(line) + 1, Q(line) - 1)),
                content |-> content,
                match |-> content]
        found == SelectSeq(SplitLines(output), Matches)
    IN IF ~Truthy(Trim(output)) THEN <<>>
       ELSE [k \in 1..Len(found) |-> Hit(found[k])]

\* A variant of executeGitGrep whose catch returns [] for every failure
executeGitGrep_EveryFailureEmpty(run) ==
    IF run.exitCode = 0
    THEN [threw |-> FALSE, results |-> parseGitGrepOutput(run.stdout)]
    ELSE [threw |-> FALSE, results |-> <<>>]

\* executeGitGrep(searchTerm, options), `run` being how the git grep child
\* process ended: its exit code (-1 when the failure carries none: the
\* process could not be spawned or was killed) and its stdout
executeGitGrep(run) ==
    IF run.exitCode = 0
    THEN [threw |-> FALSE, results |-> parseGitGrepOutput(run.stdout)]
    ELSE IF run.exitCode = 1
    THEN [threw |-> FALSE, results |-> <<>>]
    ELSE [threw |-> TRUE, results |-> <<>>]

\* displaySearchResults(results, searchTerm): the groups in the order they
\* are printed, or the TypeError raised while grouping. resultsByFile is a
\* plain object: a file name that is a property of Object.prototype reads as
\* a truthy value without push; Object.entries lists the keys that are array
\* indexes first, in ascending numeric order, then the others in insertion
\* order (names of ten digits and more are outside the inputs drawn here)
displaySearchResults(results) ==
    LET Digits == {"0", "1", "2", "3", "4", "5", "6", "7", "8", "9"}
        ObjectPrototypeKeys ==
            {<<"c", "o", "n", "s", "t", "r", "u", "c", "t", "o", "r">>,
             <<"t", "o", "S", "t", "r", "i", "n", "g">>,
             <<"v", "a", "l", "u", "e", "O", "f">>,
             <<"_", "_", "p", "r", "o", "t", "o", "_", "_">>}
        IsArrayIndex(key) ==
            /\ key /= <<>>
            /\ Len(key) <= 9
            /\ \A k \in 1..Len(key) : key[k] \in Digits
            /\ Len(key) = 1 \/ key[1] /= "0"
        first == {i \in 1..Len(results) :
                    \A j \in 1..(i - 1) : results[j].file /= results[i].file}
        Before(i, j) ==
            LET a == results[i].file
                b == results[j].file
            IN  IF IsArrayIndex(a)
                THEN ~IsArrayIndex(b) \/ parseInt(a) < parseInt(b)
                ELSE ~IsArrayIndex(b) /\ i < j
        entry(p) ==
            LET i == CHOOSE i \in first :
                        Cardinality({j \in first : Before(j, i)}) = p - 1
            IN  [file |-> results[i].file,
                 fileResults |-> SelectSeq(results,
                                     LAMBDA r : r.file = results[i].file)]
    IN  IF results = <<>>
        THEN [threw |-> FALSE, shown |-> <<>>]
        ELSE IF \E i \in 1..Len(results) : results[i].file \in ObjectPrototypeKeys
        THEN [threw |-> TRUE, shown |-> <<>>]
        ELSE [threw |-> FALSE,
              shown |-> [p \in 1..Cardinality(first) |-> entry(p)]]

\* ---- configuration (utils/useConfig.ts, types/config.ts)
\* A JavaScript value is a record [t, v]: t is "obj" (v maps its own
\* enumerable keys to values, <<>> when it has none), "arr" (v is the
\* sequence of elements), "str", "num" or "bool" (v is the literal as a
\* string), "null" or "undefined". The order of an object's keys is not kept.
defaultConfig ==
    LET Obj(r) == [t |-> "obj", v |-> r]
        Arr(s) == [t |-> "arr", v |-> s]
        Str(s) == [t |-> "str", v |-> s]
        Num(s) == [t |-> "num", v |-> s]
        Bool(s) == [t |-> "bool", v |-> s]
    IN  Obj([ai |-> Obj([provider |-> Obj([provider |-> Str("openai")]),
                         enabled |-> Bool("true"),
                         commitPrompt |-> Str("Generate a conventional commit message for these changes:")]),
             commit |-> Obj([useAI |-> Bool("true"),
                             conventionalCommits |-> Bool("true"),
                             maxMessageLength |-> Num("72"),
                             types |-> Arr(<<Str("feat"), Str("fix"), Str("docs"),
                                             Str("style"), Str("refactor"),
                                             Str("perf"), Str("test"), Str("build"),
                                             Str("ci"), Str("chore"), Str("revert")>>),
                             requireScope |-> Bool("false")]),
             branch |-> Obj([defaultBranch |-> Str("main"),
                             prefixes |-> Arr(<<Str("feature/"), Str("bugfix/"),
                                                Str("hotfix/"), Str("release/")>>),
                             namingConvention |-> Str("kebab-case"),
                             autoDeleteMerged |-> Bool("false")]),
             ui |-> Obj([theme |-> Str("auto"),
                         animations |-> Bool("true"),
                         emojis |-> Bool("true"),
                         colors |-> Obj([primary |-> Str("#3b82f6"),
                                         success |-> Str("#10b981"),
                                         warning |-> Str("#f59e0b"),
                                         error |-> Str("#ef4444")])]),
             hooks |-> Obj(<<>>),
             aliases |-> Obj(<<>>),
             project |-> Obj(<<>>),
             remotes |-> Obj(<<>>),
             workflow |-> Obj([gitflow |-> Bool("false"),
                               autoSync |-> Bool("false"),
                               syncBranches |-> Arr(<<Str("main"), Str("develop")>>),
                               releaseBranches |-> Arr(<<Str("main"), Str("master")>>)]),
             integrations |-> Obj(<<>>)])

\* A variant of deepMerge that assigns every override value directly
deepMerge_Shallow(target, source) ==
    [t |-> "obj",
     v |-> [key \in DOMAIN target.v \cup DOMAIN source.v |->
              IF key \in DOMAIN source.v THEN source.v[key] ELSE target.v[key]]]

\* deepMerge(target, source): target is an object; source is whatever
\* JSON.parse returned. for...in enumerates the keys of an object and the
\* indexes of an array and nothing of null, a number or a boolean (a string
\* source, whose characters it would enumerate, is not among the inputs)
RECURSIVE deepMerge(_, _)
deepMerge(target, source) ==
    LET keys == CASE source.t = "obj" -> DOMAIN source.v
                  [] source.t = "arr" ->
                         {ToString(i - 1) : i \in 1..Len(source.v)}
                  [] source.t \in {"null", "num", "bool", "undefined"} -> {}
        sourceValue(key) ==
            IF source.t = "arr"
            THEN source.v[CHOOSE i \in 1..Len(source.v) : ToString(i - 1) = key]
            ELSE source.v[key]
        assigned == {key \in keys : sourceValue(key).t /= "undefined"}
    IN  [t |-> "obj",
         v |-> [key \in DOMAIN target.v \cup assigned |->
                  IF key \notin assigned
                  THEN target.v[key]
                  ELSE IF /\ sourceValue(key).t = "obj"
                          /\ key \in DOMAIN target.v
                          /\ target.v[key].t = "obj"
                  THEN deepMerge(target.v[key], sourceValue(key))
                  ELSE sourceValue(key)]]

\* A file name is <<stem, extension>>, a path is <<directory, file name>>
CONFIG_FILENAMES ==
    << <<"w-git.config", ".ts">>, <<"w-git.config", ".js">>,
       <<"w-git.config", ".json">>, <<".w-git.config", ".ts">>,
       <<".w-git.config", ".js">>, <<".w-git.config", ".json">> >>

getConfigPaths ==
    [i \in 1..Len(CONFIG_FILENAMES) |-> <<"cwd", CONFIG_FILENAMES[i]>>]
        \o [i \in 1..Len(CONFIG_FILENAMES) |-> <<"home", CONFIG_FILENAMES[i]>>]

\* A variant of findConfigFile that returns the last existing candidate
findConfigFile_Last(files) ==
    LET paths == getConfigPaths
        found == {i \in 1..Len(paths) : paths[i] \in DOMAIN files}
    IN  IF found = {}
        THEN <<>>
        ELSE paths[CHOOSE i \in found : \A j \in found : j <= i]

\* findConfigFile(), files mapping each existing path to its content; <<>>
\* stands for null
findConfigFile(files) ==
    LET paths == getConfigPaths
        found == {i \in 1..Len(paths) : paths[i] \in DOMAIN files}
    IN  IF found = {}
        THEN <<>>
        ELSE paths[CHOOSE i \in found : \A j \in found : i <= j]

\* loadConfigFromFile(configPath), content being what matters of the file:
\* whether readFileSync succeeds, what JSON.parse makes of the text (t is
\* "SyntaxError" when it throws) and whether the text includes
\* "module.exports" or "export default"
loadConfigFromFile(configPath, content) ==
    LET empty == [t |-> "obj", v |-> <<>>]
        extension == configPath[2][2]
    IN  IF extension = ".json"
        THEN IF content.readable /\ content.json.t /= "SyntaxError"
             THEN [config |-> content.json, warn |-> FALSE, error |-> FALSE]
             ELSE [config |-> empty, warn |-> FALSE, error |-> TRUE]
        ELSE IF extension \in {".js", ".ts"}
        THEN IF ~content.readable
             THEN [config |-> empty, warn |-> FALSE, error |-> TRUE]
             ELSE [config |-> empty, warn |-> content.exports, error |-> FALSE]
        ELSE [config |-> empty, warn |-> FALSE, error |-> FALSE]

\* loadConfig(): the resolved configuration, the path reported as loaded and
\* what was written to the console on the way
loadConfig(files) ==
    LET configPath == findConfigFile(files)
        loaded == IF configPath /= <<>>
                  THEN loadConfigFromFile(configPath, files[configPath])
                  ELSE [config |-> [t |-> "obj", v |-> <<>>],
                        warn |-> FALSE, error |-> FALSE]
    IN  [config |-> deepMerge(defaultConfig, loaded.config),
         configPath |-> configPath,
         warn |-> loaded.warn,
         error |-> loaded.error]

\* ---- text generation on its own (utils/useTextGeneration.ts)
\* A variant of generateTextWith that sends the request again when it failed
generateTextWith_Retry(prompt, aiConfig, reply) ==
    LET request == [provider |-> aiConfig.provider,
                    model |-> RequestedModel(aiConfig), prompt |-> prompt]
    IN  IF ~SupportedProvider(aiConfig.provider)
        THEN [requests |-> <<>>, threw |-> "Unsupported AI provider", text |-> <<>>]
        ELSE IF reply.ok
        THEN [requests |-> <<request>>, threw |-> "", text |-> reply.text]
        ELSE [requests |-> <<request, request>>, threw |-> "request failed",
              text |-> <<>>]

\* generateText(prompt, config) as a function of what the provider replies:
\* the requests made (calls of the SDK's generateText), the error thrown
\* ("" when none) and the text returned
generateTextWith(prompt, aiConfig, reply) ==
    LET request == [provider |-> aiConfig.provider,
                    model |-> RequestedModel(aiConfig), prompt |-> prompt]
    IN  IF ~SupportedProvider(aiConfig.provider)
        THEN [requests |-> <<>>, threw |-> "Unsupported AI provider", text |-> <<>>]
        ELSE IF reply.ok
        THEN [requests |-> <<request>>, threw |-> "", text |-> reply.text]
        ELSE [requests |-> <<request>>, threw |-> "request failed", text |-> <<>>]

\* generateCommitMessage(diff, config)
generateCommitMessage(diff, aiConfig, reply) ==
    generateTextWith([template |-> "COMMIT_PROMPT", arg |-> diff], aiConfig, reply)

\* enhanceCommitMessage(userMessage, config)
enhanceCommitMessage(userMessage, aiConfig, reply) ==
    generateTextWith([template |-> "ENHANCE_PROMPT", arg |-> userMessage],
                     aiConfig, reply)

\* ---- awaited operations
\* What a function awaits, in program order: each operation (a git child
\* process, a prompt, a provider request) with `awaited`, whether the code
\* suspends on it before its next statement, and `caught`, whether its failure
\* is handled in place (a declined prompt counts as a failure that ends the
\* function)
Awaited(kind, op, arg, caught) ==
    [kind |-> kind, op |-> op, arg |-> arg, awaited |-> TRUE, caught |-> caught]

\* A variant of stageFiles that starts every git add before awaiting any
stageFiles_AllAtOnce(files) ==
    [i \in 1..Len(files) |->
        [kind |-> "git", op |-> "add", arg |-> files[i], awaited |-> FALSE,
         caught |-> FALSE]]

\* stageFiles(files): for (const file of files) await execa("git", ["add", file])
stageFiles(files) ==
    [i \in 1..Len(files) |-> Awaited("git", "add", files[i], FALSE)]

\* getGitStatusInfo()
getGitStatusInfo ==
    <<Awaited("git", "branch --show-current", <<>>, FALSE),
      Awaited("git", "log", <<>>, FALSE),
      Awaited("git", "remote get-url", <<>>, TRUE),
      Awaited("git", "status", <<>>, FALSE),
      Awaited("git", "rev-list", <<"@", "{", "u", "}", ".", ".", "H", "E", "A", "D">>, TRUE),
      Awaited("git", "rev-list", <<"H", "E", "A", "D", ".", ".", "@", "{", "u", "}">>, TRUE)>>

\* processGroupedCommits(groups, config): per group stageFiles, then
\* generateAICommitMessage (git diff --cached, the request), then executeCommit
processGroupedCommits(grps) ==
    Flatten([g \in 1..Len(grps) |->
                stageFiles(grps[g].files) \o
                <<Awaited("git", "diff --cached", <<>>, FALSE),
                  Awaited("ai", "generate", <<>>, FALSE),
                  Awaited("git", "commit", <<>>, FALSE)>>])

\* deleteBranch(branchName): the confirmation, then git branch -d
deleteBranch(branchName) ==
    <<Awaited("prompt", "confirm delete", branchName, FALSE),
      Awaited("git", "branch -d", branchName, FALSE)>>

\* the operations of the function that is running on its own
Program ==
    CASE call = "getGitStatusInfo" -> getGitStatusInfo
      [] call = "stageFiles" -> stageFiles(callIn)
      [] call = "processGroupedCommits" -> processGroupedCommits(callIn)
      [] call = "deleteBranch" -> deleteBranch(callIn)
      [] OTHER -> <<>>

\* the operations that were started and have not completed
Outstanding ==
    {i \in 1..Len(Program) :
        /\ \E k \in 1..Len(trace) : trace[k] = <<"start", i>>
        /\ ~\E k \in 1..Len(trace) : trace[k][1] = "end" /\ trace[k][2] = i}

\* ---- remote actions (utils/useRemote.ts)
\* pullChanges(), env being what its git calls and its prompt answer: the
\* events of the call, in order. Every failure is caught inside the function
pullChanges(env) ==
    LET remote == Trim(env.remote)
        asked == <<GitEv("remote", env.remote, TRUE),
                   GitEv("branch --show-current", <<>>, TRUE),
                   PromptEv("confirm pull", remote, env.answer)>>
    IN  IF ~env.remoteOk
        THEN <<GitEv("remote", <<>>, FALSE), OutEv("Pull failed")>>
        ELSE IF ~Truthy(remote)
        THEN <<GitEv("remote", env.remote, TRUE),
               OutEv("No remote repository configured")>>
        ELSE IF ~env.branchOk
        THEN <<GitEv("remote", env.remote, TRUE),
               GitEv("branch --show-current", <<>>, FALSE), OutEv("Pull failed")>>
        ELSE IF isCancel(env.answer) \/ ~ConfirmTruthy(env.answer)
        THEN asked
        ELSE IF env.ok
        THEN asked \o <<GitEv("pull", remote, TRUE), OutEv("Successfully pulled")>>
        ELSE asked \o <<GitEv("pull", remote, FALSE), OutEv("Pull failed")>>

\* pushChanges()
pushChanges(env) ==
    LET remote == Trim(env.remote)
        asked == <<GitEv("remote", env.remote, TRUE),
                   GitEv("branch --show-current", <<>>, TRUE),
                   PromptEv("confirm push", remote, env.answer)>>
    IN  IF ~env.remoteOk
        THEN <<GitEv("remote", <<>>, FALSE), OutEv("Push failed")>>
        ELSE IF ~Truthy(remote)
        THEN <<GitEv("remote", env.remote, TRUE),
               OutEv("No remote repository configured")>>
        ELSE IF ~env.branchOk
        THEN <<GitEv("remote", env.remote, TRUE),
               GitEv("branch --show-current", <<>>, FALSE), OutEv("Push failed")>>
        ELSE IF isCancel(env.answer) \/ ~ConfirmTruthy(env.answer)
        THEN asked
        ELSE IF env.ok
        THEN asked \o <<GitEv("push", remote, TRUE), OutEv("Successfully pushed")>>
        ELSE asked \o <<GitEv("push", remote, FALSE), OutEv("Push failed")>>

\* syncChanges(): neither call can throw, so the catch is never entered
syncChanges(env) ==
    pullChanges(env.pull) \o pushChanges(env.push) \o <<OutEv("Sync completed")>>

CallsInit ==
    /\ pc = "call"
    /\ cmd = ""
    /\ args = <<>>
    /\ options = DefaultOptions
    /\ config = [provider |-> "openai", model |-> ""]
    /\ statusOut = <<>>
    /\ allChanges = <<>>
    /\ groups = <<>>
    /\ gi = 1
    /\ fi = 1
    /\ msg = <<>>
    /\ loc = EmptyLoc
    /\ trace = <<>>
    /\ commitStart = 0
    /\ exitCode = -1
    /\ callOut = <<>>
    /\ \/ \* status lines: XY, a space, the path
          /\ call = "groupChangesByType"
          /\ callIn \in SeqUpTo({StatusLine(c, f) :
                                    c \in {<<"A", " ">>, <<" ", "M">>, <<"A", "M">>,
                                           <<"M", "D">>, <<"R", "D">>, <<"R", " ">>,
                                           <<"?", "?">>},
                                    f \in {<<"x">>, <<"y">>}}, MaxGroupLines)
       \/ \* an absent scope or description is <<>>
          /\ call = "buildCommitMessage"
          /\ callIn \in [type : {<<"f">>},
                         scope : {<<>>, <<" ">>, <<"a">>, <<" ", "a", " ">>},
                         message : {<<>>, <<"s">>, <<" ", "s", " ">>},
                         breaking : BOOLEAN,
                         breakingDesc : {<<>>, <<" ">>, <<"d">>, <<" ", "d", "\n">>}]
       \/ \* stdout of git status --porcelain
          /\ call = "displayFileChangesInColumns"
          /\ callIn \in {JoinLines(ls) :
                ls \in SeqUpTo({StatusLine(c, <<"x">>) :
                                  c \in {<<"M", " ">>, <<" ", "M">>, <<"?", "?">>,
                                         <<"M", "M">>, <<"R", " ">>, <<"A", "D">>}},
                               MaxLines)}
       \/ \* stdout of git grep -n: lines of a repository with LF and CRLF files,
          \* and lines that are not matches
          /\ call = "parseGitGrepOutput"
          /\ callIn \in {JoinLines(ls) :
                ls \in SeqUpTo({<<"a", ":", "1", ":", "x">>,
                                <<"b", ":", "2", "0", ":", " ", "y", " ">>,
                                <<"a", ":", "0", ":", "x">>,
                                <<"a", ":", "1", ":", "x", "\r">>,
                                <<"a", ":", "1", ":", "x", ":", "y">>,
                                <<"a", ":", "1", ":">>,
                                <<"a", ":", "1">>,
                                <<"a", ":", ":", "x">>,
                                <<":", "1", ":", "x">>,
                                <<"a", "b">>,
                                <<" ">>,
                                <<>>}, MaxLines)}
       \/ /\ call = "executeGitGrep"
          /\ callIn \in [exitCode : {0, 1, 2, 128, -1},
                         stdout : {JoinLines(ls) :
                                     ls \in SeqUpTo({<<"a", ":", "1", ":", "x">>,
                                                     <<"b", ":", "2", "0", ":", "y">>},
                                                    MaxLines)}]
       \/ /\ call = "displaySearchResults"
          /\ callIn \in SeqUpTo([file : {<<"a">>, <<"b">>, <<"2">>, <<"1", "0">>,
                                         <<"0", "1">>,
                                         <<"c", "o", "n", "s", "t", "r", "u", "c",
                                           "t", "o", "r">>},
                                 line : 1..2,
                                 content : {<<"x">>}],
                                MaxLines)
       \/ /\ call = "deepMerge"
          /\ callIn \in
               LET Obj(r) == [t |-> "obj", v |-> r]
                   parts == [commit : {Obj([useAI |-> [t |-> "bool", v |-> "false"]]),
                                       Obj([types |-> [t |-> "arr",
                                                       v |-> <<[t |-> "str", v |-> "wip"]>>]]),
                                       Obj(<<>>),
                                       [t |-> "arr", v |-> <<>>],
                                       [t |-> "null", v |-> "null"]},
                             ai : {Obj([provider |-> Obj([model |-> [t |-> "str", v |-> "gpt-4o"]])]),
                                   Obj([provider |-> [t |-> "str", v |-> "gemini"]])},
                             hooks : {Obj([preCommit |-> [t |-> "str", v |-> "lint"]])},
                             verbose : {[t |-> "bool", v |-> "true"]}]
               IN  {[target |-> defaultConfig,
                     source |-> Obj([key \in named |-> part[key]])] :
                        part \in parts,
                        named \in SUBSET {"commit", "ai", "hooks", "verbose"}}
       \/ /\ call = "loadConfig"
          /\ callIn \in
               LET Obj(r) == [t |-> "obj", v |-> r]
                   contents ==
                       {[readable |-> TRUE, exports |-> FALSE,
                         json |-> Obj([commit |-> Obj([useAI |-> [t |-> "bool", v |-> "false"]])])],
                        [readable |-> TRUE, exports |-> TRUE,
                         json |-> Obj([ui |-> Obj([theme |-> [t |-> "str", v |-> "export default"]])])],
                        [readable |-> TRUE, exports |-> FALSE,
                         json |-> Obj([ai |-> [t |-> "null", v |-> "null"]])],
                        [readable |-> TRUE, exports |-> TRUE,
                         json |-> [t |-> "SyntaxError", v |-> "module.exports = {}"]],
                        [readable |-> TRUE, exports |-> FALSE,
                         json |-> [t |-> "SyntaxError", v |-> "export const config = {}"]],
                        [readable |-> FALSE, exports |-> FALSE,
                         json |-> [t |-> "SyntaxError", v |-> ""]]}
                   candidates == {getConfigPaths[i] : i \in 1..Len(getConfigPaths)}
               IN  UNION {[existing -> contents] :
                            existing \in {e \in SUBSET candidates :
                                            Cardinality(e) <= MaxFiles}}
       \/ /\ call \in {"generateCommitMessage", "enhanceCommitMessage"}
          /\ callIn \in [arg : {<<>>, <<"+", "a">>},
                         config : [provider : Providers \cup {"gemini", "OpenAI"},
                                   model : {"", "gpt-4o"}],
                         reply : [ok : BOOLEAN,
                                  text : AiTexts \cup {<<" ", "f", "i", "x", "\n">>}]]
       \/ /\ call = "getGitStatusInfo"
          /\ callIn = <<>>
       \/ /\ call = "stageFiles"
          /\ callIn \in SeqUpTo({<<"a">>, <<"b">>}, MaxLines)
       \/ /\ call = "processGroupedCommits"
          /\ callIn \in {groupChangesByType(ls) :
                           ls \in SeqUpTo({StatusLine(<<"A", " ">>, <<"a">>),
                                           StatusLine(<<" ", "M">>, <<"b">>),
                                           StatusLine(<<"?", "?">>, <<"c">>)},
                                          MaxLines)}
       \/ /\ call = "deleteBranch"
          /\ callIn \in {<<"d", "e", "v">>}
       \/ /\ call = "syncChanges"
          /\ callIn \in
               LET envs == [remote : {<<>>, <<"o">>}, remoteOk : BOOLEAN,
                            branchOk : BOOLEAN, answer : ConfirmAnswers,
                            ok : BOOLEAN]
               IN  [pull : envs, push : envs]

Returns(name, value) ==
    /\ pc = "call"
    /\ call = name
    /\ callOut' = value
    /\ pc' = "returned"
    /\ UNCHANGED <<call, callIn, cmd, args, options, config, statusOut, allChanges,
                   groups, gi, fi, msg, loc, trace, commitStart, exitCode>>

CallGroupChangesByType == Returns("groupChangesByType", groupChangesByType(callIn))

CallBuildCommitMessage ==
    Returns("buildCommitMessage",
            buildCommitMessage(callIn.type, callIn.scope, callIn.message,
                               callIn.breaking, callIn.breakingDesc))

CallDisplayFileChanges ==
    Returns("displayFileChangesInColumns",
            displayFileChangesInColumns(parseGitStatusFiles(callIn)))

CallParseGitGrepOutput == Returns("parseGitGrepOutput", parseGitGrepOutput(callIn))

CallExecuteGitGrep == Returns("executeGitGrep", executeGitGrep(callIn))

CallDisplaySearchResults ==
    Returns("displaySearchResults", displaySearchResults(callIn))

CallDeepMerge ==
    Returns("deepMerge", deepMerge(callIn.target, callIn.source))

CallLoadConfig == Returns("loadConfig", loadConfig(callIn))

CallGenerateText ==
    \/ Returns("generateCommitMessage",
               generateCommitMessage(callIn.arg, callIn.config, callIn.reply))
    \/ Returns("enhanceCommitMessage",
               enhanceCommitMessage(callIn.arg, callIn.config, callIn.reply))

\* the running function reaches its next operation and starts it; gi is the
\* index of that operation. It gets there only when it is not suspended on an
\* operation it awaits
StartOperation ==
    /\ pc = "call"
    /\ Program /= <<>>
    /\ gi <= Len(Program)
    /\ \A i \in Outstanding : ~Program[i].awaited
    /\ trace' = Append(trace, <<"start", gi>>)
    /\ gi' = gi + 1
    /\ UNCHANGED <<call, callIn, callOut, pc, cmd, args, options, config, statusOut,
                   allChanges, groups, fi, msg, loc, commitStart, exitCode>>

\* an outstanding operation completes; a failure that is not handled in place
\* ends the function, and so does the completion of its last operation
CompleteOperation ==
    /\ pc = "call"
    /\ \E i \in Outstanding, ok \in BOOLEAN :
         /\ trace' = Append(trace, <<"end", i, ok>>)
         /\ pc' = IF ~ok /\ ~Program[i].caught THEN "returned"
                  ELSE IF gi > Len(Program) /\ Outstanding = {i} THEN "returned"
                  ELSE "call"
    /\ UNCHANGED <<call, callIn, callOut, gi, cmd, args, options, config, statusOut,
                   allChanges, groups, fi, msg, loc, commitStart, exitCode>>

CallSyncChanges == Returns("syncChanges", syncChanges(callIn))

NextCalls ==
    \/ CallGroupChangesByType
    \/ CallBuildCommitMessage
    \/ CallDisplayFileChanges
    \/ CallParseGitGrepOutput
    \/ CallExecuteGitGrep
    \/ CallDisplaySearchResults
    \/ CallDeepMerge
    \/ CallLoadConfig
    \/ CallGenerateText
    \/ StartOperation
    \/ CompleteOperation
    \/ CallSyncChanges

SpecCalls == CallsInit /\ [][NextCalls]_vars

Returned(name) == call = name /\ pc = "returned"

\* ------------------------------------------------------------------ properties
\* the events of the current run of commitCommand
CommitEntered ==
    /\ commitStart < Len(trace)
    /\ trace[commitStart + 1].kind = "out"
    /\ trace[commitStart + 1].op \in {"intro", "commit help"}

CommitEvents == SubSeq(trace, commitStart + 1, Len(trace))

\* the run's `git status --porcelain` answered, and what it answered
StatusChecked ==
    /\ CommitEntered
    /\ Len(CommitEvents) >= 2
    /\ CommitEvents[2].kind = "git"
    /\ CommitEvents[2].op = "status"
    /\ CommitEvents[2].ok

StatusBlank == \A k \in 1..Len(CommitEvents[2].arg) : CommitEvents[2].arg[k] \in Whitespace

ModePrompted == \E i \in 1..Len(CommitEvents) :
                    CommitEvents[i].kind = "prompt" /\ CommitEvents[i].op = "mode"

ModeBranches == {"auto", "pe_draft", "ai_staged", "i_type", "cp_hash"}

Finished == pc = "exit"

\* C1: a commit run whose arguments hold neither --mode, nor an AI flag, nor
\* -m, and that found pending changes, has shown the mode selection prompt by
\* the time it stands at the entry of a mode branch.
C1_ModePromptBeforeBranch ==
    ( /\ CommitEntered
      /\ ~HasArg(args, {"--mode", "-a", "--ai", "--no-ai", "-m", "--message"})
      /\ pc \in ModeBranches )
    => ModePrompted

\* C2: in the clean, worktree and release handlers, once a prompt was
\* answered by cancelling, no mutating git command is executed afterwards.
C2_CancelRunsNothing ==
    cmd \in {"clean", "worktree", "release"} =>
        \A i \in 1..Len(trace) :
            (trace[i].kind = "prompt" /\ isCancel(trace[i].res)) =>
                \A j \in (i + 1)..Len(trace) : ~IsMutation(trace[j])

\* no prompt is shown after a mutating git command was executed
PromptsBeforeMutations ==
    \A i \in 1..Len(trace) : \A j \in (i + 1)..Len(trace) :
        ~(IsMutation(trace[i]) /\ trace[j].kind = "prompt")

\* C3 (as stated): in every handler, at each prompt no mutating git command
\* has been executed yet.
C3_EveryHandlerPromptsFirst == PromptsBeforeMutations

\* C3 (amended): in the commit, clean and worktree handlers, at each prompt
\* no mutating git command has been executed yet.
C3_PromptsFirst ==
    cmd \in {"commit", "clean", "worktree"} => PromptsBeforeMutations

\* a worktree was removed after the confirmation, and the run is over
C3_Witness ==
    /\ Finished
    /\ cmd = "worktree"
    /\ Len(trace) >= 2
    /\ trace[Len(trace)] = GitEv("worktree remove", msg, TRUE)
    /\ trace[Len(trace) - 1] = PromptEv("confirm remove", msg, "yes")

\* git calls whose failure the code replaces by a default value
DefaultedOps == {"describe", "worktree list", "remote get-url", "rev-list"}

\* C4: a run in which a git call failed (other than one whose failure is
\* replaced by a default) ends with exit code 1.
C4_GitFailureExitsOne ==
    ( /\ Finished
      /\ \E i \in 1..Len(trace) :
            trace[i].kind = "git" /\ ~trace[i].ok /\ trace[i].op \notin DefaultedOps )
    => exitCode = 1

\* C5: every AI request of a commit run goes to the configured provider and
\* asks for the configured model (the provider's default when none is set).
C5_ConfiguredProviderAndModel ==
    CommitEntered =>
        \A i \in 1..Len(CommitEvents) :
            CommitEvents[i].kind = "ai" =>
                /\ CommitEvents[i].op = config.provider
                /\ CommitEvents[i].res = RequestedModel(config)

\* C6: when git status answers with nothing but white space, the commit run
\* reports that there is nothing to commit and returns: its events are the
\* intro, the status call and the report, so it shows no prompt and runs no
\* mutating git command, whatever flags were passed.
C6_NoChangesNoCommit ==
    (StatusChecked /\ StatusBlank) =>
        /\ Len(CommitEvents) = 3
        /\ CommitEvents[3] = OutEv("No changes to commit")
        /\ pc \in {"ret", "exit"}
        /\ Finished => exitCode = 0

\* `commit -m fix` over a status output of one space has ended
C6_Witness ==
    /\ Finished
    /\ cmd = "commit"
    /\ HasArg(args, {"-m"})
    /\ StatusChecked
    /\ CommitEvents[2].arg = <<" ">>
    /\ Len(CommitEvents) = 3

\* C7: once a prompt of the commit flow was answered by cancelling, the run
\* shows nothing but messages, returns without an error, and has run neither
\* git commit nor git cherry-pick.
C7_CancelEndsWithoutCommit ==
    CommitEntered =>
        \A i \in 1..Len(CommitEvents) :
            (CommitEvents[i].kind = "prompt" /\ isCancel(CommitEvents[i].res)) =>
                /\ pc \in {"ret", "exit"}
                /\ Finished => exitCode = 0
                /\ \A j \in (i + 1)..Len(CommitEvents) : CommitEvents[j].kind = "out"
                /\ \A j \in 1..Len(CommitEvents) :
                       ~(CommitEvents[j].kind = "git"
                         /\ CommitEvents[j].op \in {"commit", "cherry-pick"})

\* the confirmation of a generated message was cancelled, and the run is over
C7_Witness ==
    /\ Finished
    /\ exitCode = 0
    /\ cmd = "commit"
    /\ CommitEntered
    /\ \E i \in 2..Len(CommitEvents) :
          /\ CommitEvents[i] = PromptEv("confirm", msg, "cancel")
          /\ CommitEvents[i - 1].kind = "ai"

\* C8: in the ai-generate and prompt-enhance flows, git commit runs only
\* straight after the confirmation of a generated message was answered yes,
\* with the message that confirmation showed; a confirmation answered
\* otherwise is followed by no commit.
C8_CommitOnlyConfirmedMessage ==
    (CommitEntered /\ loc.flow \in {"ai-generate", "prompt-enhance"}) =>
        \A i \in 1..Len(CommitEvents) :
            /\ (CommitEvents[i].kind = "git" /\ CommitEvents[i].op = "commit") =>
                  /\ i > 2
                  /\ CommitEvents[i - 1] = PromptEv("confirm", CommitEvents[i].arg, "yes")
                  /\ CommitEvents[i - 2].kind = "ai"
                  /\ CommitEvents[i - 2].ok
            /\ (CommitEvents[i].kind = "prompt" /\ CommitEvents[i].op = "confirm"
                /\ CommitEvents[i].res /= "yes") =>
                  \A j \in (i + 1)..Len(CommitEvents) : ~IsMutation(CommitEvents[j])

\* an enhanced message was confirmed and committed
C8_Witness ==
    /\ Finished
    /\ exitCode = 0
    /\ loc.flow = "prompt-enhance"
    /\ \E i \in 2..Len(CommitEvents) :
          /\ CommitEvents[i] = GitEv("commit", msg, TRUE)
          /\ CommitEvents[i - 1] = PromptEv("confirm", msg, "yes")

\* the steps processGroupedCommits is to take for the groups, in order
StepsOfGroup(g) ==
    [i \in 1..Len(g.files) |-> [kind |-> "git", op |-> "add", arg |-> g.files[i]]]
    \o <<[kind |-> "git", op |-> "diff --cached", arg |-> <<>>],
         [kind |-> "ai", op |-> "", arg |-> <<>>],
         [kind |-> "git", op |-> "commit", arg |-> <<>>]>>

RECURSIVE StepsOfGroups(_)
StepsOfGroups(gs) ==
    IF gs = <<>> THEN <<>> ELSE StepsOfGroup(Head(gs)) \o StepsOfGroups(Tail(gs))

IsAutoStep(e) ==
    \/ e.kind = "ai"
    \/ e.kind = "git" /\ e.op \in {"add", "diff --cached", "commit"}

AutoSteps == SelectSeq(CommitEvents, IsAutoStep)

StepMatches(e, x) ==
    /\ e.kind = x.kind
    /\ e.kind = "git" => e.op = x.op
    /\ e.op = "add" => e.arg = x.arg

\* C9: in the autocommit flow the groups are handled one after the other,
\* each by staging its files, generating a message and committing; the first
\* step that fails is the last step taken, the failure leaves the handler as
\* an error, nothing is rolled back, and a run that ends without an error has
\* committed every group.
C9_GroupsInOrderStopAtFailure ==
    (CommitEntered /\ loc.flow = "autocommit") =>
        LET want == StepsOfGroups(groups)
        IN /\ Len(AutoSteps) <= Len(want)
           /\ \A i \in 1..Len(AutoSteps) : StepMatches(AutoSteps[i], want[i])
           /\ \A i \in 1..(Len(AutoSteps) - 1) : AutoSteps[i].ok
           /\ (Len(AutoSteps) > 0 /\ ~AutoSteps[Len(AutoSteps)].ok) =>
                 /\ pc \in {"throw", "exit"}
                 /\ Finished => exitCode = 1
           /\ \A i \in 1..Len(CommitEvents) :
                 ~(CommitEvents[i].kind = "git"
                   /\ CommitEvents[i].op \in {"reset", "restore", "revert"})
           /\ (Finished /\ exitCode = 0) => Len(AutoSteps) = Len(want)

\* the first group was committed, staging the second one failed, exit code 1
C9_Witness ==
    /\ Finished
    /\ exitCode = 1
    /\ loc.flow = "autocommit"
    /\ Len(groups) = 2
    /\ \E i \in 1..Len(AutoSteps) :
          AutoSteps[i].op = "commit" /\ AutoSteps[i].ok
    /\ AutoSteps[Len(AutoSteps)].op = "add"
    /\ ~AutoSteps[Len(AutoSteps)].ok

\* C10: each state of the commit flow is visited by some run; in particular a
\* run of `commit` without arguments over pending changes that has gone
\* through Execute to Done has been through SelectMode.
C10_SelectModeVisited ==
    ( /\ Finished
      /\ cmd = "commit"
      /\ args = <<>>
      /\ exitCode = 0
      /\ \E i \in 1..Len(trace) : trace[i].kind = "git" /\ trace[i].op = "commit" )
    => ModePrompted

\* the mode selection prompt is never shown
NeverSelectMode == \A i \in 1..Len(trace) : ~(trace[i].kind = "prompt" /\ trace[i].op = "mode")

\* createCherryPickCommit is never entered
NeverCherryPick == pc /= "cp_hash" /\ loc.flow /= "cherry-pick"

\* the type the precedence A, M, D, R gives a two-character status code
PrecedenceType(code) ==
    LET cs == {code[k] : k \in 1..Len(code)}
    IN CASE "A" \in cs -> "feat"
         [] "A" \notin cs /\ "M" \in cs -> "fix"
         [] {"A", "M"} \cap cs = {} /\ "D" \in cs -> "remove"
         [] {"A", "M", "D"} \cap cs = {} /\ "R" \in cs -> "refactor"
         [] OTHER -> "misc"

LineType(line) == PrecedenceType(SubSeq(line, 1, 2))

\* the paths of the lines of type t, in input order
FilesOfType(lines, t) ==
    LET sel == SelectSeq(lines, LAMBDA l : LineType(l) = t)
    IN [k \in 1..Len(sel) |-> SubSeq(sel[k], 4, Len(sel[k]))]

FirstLineOfType(lines, t) ==
    CHOOSE i \in 1..Len(lines) :
        LineType(lines[i]) = t /\ \A k \in 1..(i - 1) : LineType(lines[k]) /= t

\* C11: groupChangesByType partitions the status lines: the groups have
\* pairwise different types, every line's type (by the precedence A, M, D,
\* R, else misc) has a group, a group's files are the paths of the lines of
\* its type in input order, and the groups come in the order of the first
\* line of each type.
C11_GroupingPartitions ==
    Returned("groupChangesByType") =>
        /\ \A g, h \in 1..Len(callOut) : g /= h => callOut[g].type /= callOut[h].type
        /\ \A i \in 1..Len(callIn) :
              \E g \in 1..Len(callOut) : callOut[g].type = LineType(callIn[i])
        /\ \A g \in 1..Len(callOut) :
              /\ callOut[g].files /= <<>>
              /\ callOut[g].files = FilesOfType(callIn, callOut[g].type)
        /\ \A g, h \in 1..Len(callOut) :
              g < h => FirstLineOfType(callIn, callOut[g].type)
                         < FirstLineOfType(callIn, callOut[h].type)

\* "AM x", " M y", "AM y" were grouped into feat (x, y) and fix (y)
C11_Witness ==
    /\ Returned("groupChangesByType")
    /\ callIn = <<StatusLine(<<"A", "M">>, <<"x">>), StatusLine(<<" ", "M">>, <<"y">>),
                  StatusLine(<<"A", "M">>, <<"y">>)>>
    /\ callOut = <<[type |-> "feat", files |-> <<<<"x">>, <<"y">>>>],
                   [type |-> "fix", files |-> <<<<"y">>>>]>>

NonBlankText(t) == \E k \in 1..Len(t) : t[k] \notin Whitespace

\* C12: buildCommitMessage returns the type, then the trimmed scope in
\* parentheses exactly when the scope is not blank, then ": " and the subject
\* as given, then two newlines, "BREAKING CHANGE: " and the trimmed
\* description exactly when breaking is set and the description is not
\* blank; nothing else.
C12_MessageFormat ==
    Returned("buildCommitMessage") =>
        callOut =
            callIn.type
            \o (IF NonBlankText(callIn.scope)
                THEN <<"(">> \o TrimEnd(TrimStart(callIn.scope)) \o <<")">>
                ELSE <<>>)
            \o <<":", " ">> \o callIn.message
            \o (IF callIn.breaking /\ NonBlankText(callIn.breakingDesc)
                THEN <<"\n", "\n">> \o <<"B", "R", "E", "A", "K", "I", "N", "G">>
                     \o <<" ">> \o <<"C", "H", "A", "N", "G", "E">> \o <<":", " ">>
                     \o TrimEnd(TrimStart(callIn.breakingDesc))
                ELSE <<>>)

\* a padded scope and a padded description were trimmed into the message
C12_Witness ==
    /\ Returned("buildCommitMessage")
    /\ callIn.scope = <<" ", "a", " ">>
    /\ callIn.breaking
    /\ callIn.breakingDesc = <<" ", "d", "\n">>
    /\ callIn.message = <<"s">>
    /\ callOut = <<"f", "(", "a", ")", ":", " ", "s", "\n", "\n">>
                 \o <<"B", "R", "E", "A", "K", "I", "N", "G", " ">>
                 \o <<"C", "H", "A", "N", "G", "E", ":", " ", "d">>

\* C13: every non-empty line of the porcelain output is one parsed entry, and
\* together the staged, modified, untracked and mixed groups show as many
\* files as there are entries, each entry falling in one of the groups.
C13_EveryFileDisplayedOnce ==
    Returned("displayFileChangesInColumns") =>
        LET lines == SelectSeq(SplitLines(callIn), LAMBDA l : l /= <<>>)
            shown == callOut
        IN /\ Len(shown.staged) + Len(shown.modified) + Len(shown.untracked)
                + Len(shown.mixed) = Len(lines)
           /\ \A i \in 1..Len(lines) :
                 \E g \in {"staged", "modified", "untracked", "mixed"} :
                    \E k \in 1..Len(shown[g]) :
                       /\ shown[g][k].status = SubSeq(lines[i], 1, 2)
                       /\ shown[g][k].filename = SubSeq(lines[i], 4, Len(lines[i]))

\* a line of the form file:line:content: a non-empty file name without a
\* colon, a colon, one or more digits, a colon, any content
IsGrepLine(line) ==
    \E p \in 2..Len(line) : \E q \in (p + 2)..Len(line) :
        /\ line[p] = ":"
        /\ line[q] = ":"
        /\ \A k \in 1..(p - 1) : line[k] /= ":"
        /\ \A k \in (p + 1)..(q - 1) : line[k] \in {ToString(d) : d \in 0..9}

GrepFile(line) == SubSeq(line, 1, (CHOOSE p \in 1..Len(line) : line[p] = ":" /\ \A k \in 1..(p - 1) : line[k] /= ":") - 1)

\* C14: parseGitGrepOutput returns one hit for each input line of the form
\* file:line:content, in input order and with that line's file, and nothing
\* for the other lines.
C14_OneHitPerGrepLine ==
    Returned("parseGitGrepOutput") =>
        LET wanted == SelectSeq(SplitLines(callIn), IsGrepLine)
        IN /\ Len(callOut) = Len(wanted)
           /\ \A k \in 1..Len(callOut) : callOut[k].file = GrepFile(wanted[k])

\* C15: every hit parseGitGrepOutput returns has a line number that is an
\* integer of at least 1.
C15_LinePositive ==
    Returned("parseGitGrepOutput") =>
        \A k \in 1..Len(callOut) : callOut[k].line \in Nat /\ callOut[k].line >= 1

\* C16: executeGitGrep returns the empty list without raising when git grep
\* exits with code 1, and raises when it fails in any other way.
C16_ExitOneIsNoMatch ==
    Returned("executeGitGrep") =>
        /\ callIn.exitCode = 1 => (~callOut.threw /\ callOut.results = <<>>)
        /\ callIn.exitCode \notin {0, 1} => callOut.threw

\* git grep exited with code 1 after printing a line, and [] was returned
C16_Witness ==
    /\ Returned("executeGitGrep")
    /\ callIn.exitCode = 1
    /\ callIn.stdout = <<"a", ":", "1", ":", "x">>
    /\ callOut = [threw |-> FALSE, results |-> <<>>]

\* C17: displaySearchResults prints the hits grouped by file, the files in
\* the order of their first hit and the hits of a file in their input order,
\* whatever the file names are.
C17_GroupsInFirstSeenOrder ==
    Returned("displaySearchResults") =>
        LET first == {i \in 1..Len(callIn) :
                        \A j \in 1..(i - 1) : callIn[j].file /= callIn[i].file}
            nth(p) == CHOOSE i \in first :
                          Cardinality({j \in first : j < i}) = p - 1
        IN  /\ ~callOut.threw
            /\ Len(callOut.shown) = Cardinality(first)
            /\ \A p \in 1..Cardinality(first) :
                   /\ callOut.shown[p].file = callIn[nth(p)].file
                   /\ callOut.shown[p].fileResults =
                          SelectSeq(callIn,
                                    LAMBDA r : r.file = callIn[nth(p)].file)

\* C18: loadConfig takes its override from the first existing candidate of
\* the search order, in which every working-directory candidate precedes every
\* home-directory candidate; later files never influence the result; with no
\* candidate the result is the default configuration.
C18_FirstExistingFileOnly ==
    Returned("loadConfig") =>
        LET paths == getConfigPaths
            found == {i \in 1..Len(paths) : paths[i] \in DOMAIN callIn}
            first == paths[CHOOSE i \in found : \A j \in found : i <= j]
        IN  /\ \A i, j \in 1..Len(paths) :
                   paths[i][1] = "cwd" /\ paths[j][1] = "home" => i < j
            /\ found = {} =>
                   callOut.configPath = <<>> /\ callOut.config = defaultConfig
            /\ found /= {} =>
                   /\ callOut.configPath = first
                   /\ callOut.config =
                          deepMerge(defaultConfig,
                                    loadConfigFromFile(first, callIn[first]).config)
                   /\ callOut = loadConfig([p \in {first} |-> callIn[p]])

\* a JSON file in the working directory and another in the home directory:
\* the resolved configuration carries the first one's override only
C18_Witness ==
    /\ Returned("loadConfig")
    /\ DOMAIN callIn = {<<"cwd", <<".w-git.config", ".json">>>>,
                        <<"home", <<"w-git.config", ".json">>>>}
    /\ callIn[<<"cwd", <<".w-git.config", ".json">>>>].json.t = "obj"
    /\ "commit" \in DOMAIN callIn[<<"cwd", <<".w-git.config", ".json">>>>].json.v
    /\ callIn[<<"home", <<"w-git.config", ".json">>>>].json.t = "obj"
    /\ "ui" \in DOMAIN callIn[<<"home", <<"w-git.config", ".json">>>>].json.v
    /\ callOut.configPath = <<"cwd", <<".w-git.config", ".json">>>>
    /\ callOut.config.v.commit.v.useAI.v = "false"
    /\ callOut.config.v.ui = defaultConfig.v.ui

\* C19: whenever the selected configuration file is a .js or .ts file,
\* whatever it contains, the unsupported-format warning is emitted and the
\* resolved configuration equals the defaults.
C19_ScriptConfigWarns ==
    (/\ Returned("loadConfig")
     /\ callOut.configPath /= <<>>
     /\ callOut.configPath[2][2] \in {".js", ".ts"}) =>
        /\ callOut.warn
        /\ callOut.config = defaultConfig

\* result differs from default only as override says, key by key
RECURSIVE MergedAsNamed(_, _, _)
MergedAsNamed(default, override, result) ==
    /\ result.t = "obj"
    /\ DOMAIN result.v = DOMAIN default.v \cup DOMAIN override.v
    /\ \A key \in DOMAIN default.v \ DOMAIN override.v :
           result.v[key] = default.v[key]
    /\ \A key \in DOMAIN override.v :
           IF /\ key \in DOMAIN default.v
              /\ default.v[key].t = "obj"
              /\ override.v[key].t = "obj"
           THEN MergedAsNamed(default.v[key], override.v[key], result.v[key])
           ELSE result.v[key] = override.v[key]

\* C20: deep-merging an override onto the default configuration changes only
\* the keys the override names: it recurses where both values are plain
\* objects and otherwise replaces the default value wholesale (arrays too),
\* every other default key keeps its value, and both inputs stay as they were.
C20_MergeChangesOnlyNamedKeys ==
    Returned("deepMerge") =>
        /\ MergedAsNamed(callIn.target, callIn.source, callOut)
        /\ callIn.target = defaultConfig

\* { commit: { useAI: false } } was merged: only commit.useAI changed
C20_Witness ==
    /\ Returned("deepMerge")
    /\ DOMAIN callIn.source.v = {"commit"}
    /\ DOMAIN callIn.source.v.commit.v = {"useAI"}
    /\ callOut.v.commit.v.useAI.v = "false"
    /\ callOut.v.commit.v.conventionalCommits = defaultConfig.v.commit.v.conventionalCommits
    /\ callOut.v.ai = defaultConfig.v.ai
    /\ callOut.v.branch = defaultConfig.v.branch

\* C21: a call of generateCommitMessage or enhanceCommitMessage sends no
\* request and fails as unsupported when the provider is not openai, anthropic
\* or xai; otherwise it sends exactly one request, returns the provider's text
\* as it is on success and fails with the provider's failure, without retry.
C21_OneRequestOrUnsupported ==
    (Returned("generateCommitMessage") \/ Returned("enhanceCommitMessage")) =>
        IF callIn.config.provider \notin {"openai", "anthropic", "xai"}
        THEN callOut.requests = <<>> /\ callOut.threw = "Unsupported AI provider"
        ELSE /\ Len(callOut.requests) = 1
             /\ callOut.requests[1].provider = callIn.config.provider
             /\ IF callIn.reply.ok
                THEN callOut.threw = "" /\ callOut.text = callIn.reply.text
                ELSE callOut.threw = "request failed"

\* the request to a supported provider failed: one request, failure propagated
C21_Witness ==
    /\ Returned("enhanceCommitMessage")
    /\ callIn.config.provider = "anthropic"
    /\ ~callIn.reply.ok
    /\ Len(callOut.requests) = 1
    /\ callOut.threw = "request failed"

\* the staging action the user selected
Chose(action) ==
    \E i \in 1..Len(trace) :
        trace[i].kind = "prompt" /\ trace[i].op = "staging action"
            /\ trace[i].res = action

\* the confirmation that guards a work-discarding git command, "" for the
\* git commands that have none
GuardOf(e) ==
    IF e.kind /= "git" THEN ""
    ELSE IF cmd = "clean" /\ e.op = "clean" /\ e.arg = <<"-", "f", "d">>
    THEN "confirm clean"
    ELSE IF cmd = "staging" /\ e.op = "restore" /\ Chose("restore")
    THEN "confirm restore"
    ELSE IF cmd = "staging" /\ e.op \in {"reset", "restore"} /\ Chose("reset")
    THEN "confirm reset"
    ELSE ""

\* after the confirmation was answered No, the guarded command is not run
NoLeavesUnexecuted ==
    \A i \in 1..Len(trace) : \A j \in (i + 1)..Len(trace) :
        ~(/\ trace[i].kind = "prompt"
          /\ trace[i].res = "no"
          /\ GuardOf(trace[j]) = trace[i].op)

\* a guarded command that ran was confirmed with Yes just before
RunsOnlyAfterYes ==
    \A j \in 1..Len(trace) :
        GuardOf(trace[j]) /= "" =>
            \E i \in 1..(j - 1) :
                /\ trace[i].kind = "prompt"
                /\ trace[i].op = GuardOf(trace[j])
                /\ trace[i].res = "yes"

\* C22: for every confirmation that guards a work-discarding git command,
\* answering No leaves the command unexecuted, and the command runs only in a
\* run where that confirmation was answered Yes.
C22_GuardedCommandNeedsYes == NoLeavesUnexecuted /\ RunsOnlyAfterYes

\* C23: at most one git child process or prompt is outstanding at any time:
\* an operation is started only when every operation started before it has
\* completed.
C23_OneOutstanding ==
    /\ Cardinality(Outstanding) <= 1
    /\ \A k \in 1..Len(trace) :
           (call /= "" /\ Program /= <<>> /\ trace[k][1] = "start") =>
               \A j \in 1..(k - 1) :
                   trace[j][1] = "start" =>
                       \E e \in (j + 1)..(k - 1) :
                           trace[e][1] = "end" /\ trace[e][2] = trace[j][2]

\* processGroupedCommits went through two groups, eight operations in all
C23_Witness ==
    /\ Returned("processGroupedCommits")
    /\ Len(callIn) = 2
    /\ Len(Program) = 8
    /\ gi = 9
    /\ Outstanding = {}
    /\ Len(trace) = 16

\* C24: when release is invoked with --dry-run or -d, no mutating git
\* command is executed, whatever the prompts are answered.
C24_DryRunMutatesNothing ==
    (cmd = "release" /\ HasArg(args, {"--dry-run", "-d"})) =>
        \A i \in 1..Len(trace) : ~IsMutation(trace[i])

\* the paths that git status --porcelain listed: what follows XY and the
\* space on each line of its output
ListedPaths ==
    LET lines == FilterNonEmpty(SplitLines(allChanges))
    IN  [i \in 1..Len(lines) |-> SubstringFrom(lines[i], 3)]

\* the paths handed to git add in the autocommit run
AddedPaths ==
    LET adds == SelectSeq(AutoSteps, LAMBDA e : e.op = "add")
    IN  [i \in 1..Len(adds) |-> adds[i].arg]

\* C25: in an autocommit run that went through all groups, the paths handed
\* to git add are exactly the paths that git status --porcelain listed, each
\* staged once and unaltered, whatever its status code and its line.
C25_StagesListedPaths ==
    (CommitEntered /\ loc.flow = "autocommit" /\ Finished /\ exitCode = 0) =>
        \A p \in {ListedPaths[i] : i \in 1..Len(ListedPaths)}
                 \cup {AddedPaths[i] : i \in 1..Len(AddedPaths)} :
            Cardinality({i \in 1..Len(AddedPaths) : AddedPaths[i] = p})
                = Cardinality({i \in 1..Len(ListedPaths) : ListedPaths[i] = p})

\* the paths the index held when the autocommit run began: the lines of the
\* status output whose index column shows a change
InitialIndex ==
    LET lines == FilterNonEmpty(SplitLines(allChanges))
    IN  {SubstringFrom(lines[i], 3) :
            i \in {k \in 1..Len(lines) : lines[k][1] \notin {" ", "?", "!"}}}

\* what the commit made at step k of the autocommit run contains: git commit
\* records the whole index, that is every path staged since the commit before
\* (since the beginning, with what the index held then, for the first one)
CommitContents(k) ==
    LET before == {c \in 1..(k - 1) : AutoSteps[c].op = "commit" /\ AutoSteps[c].ok}
        staged == {AutoSteps[a].arg :
                     a \in {i \in 1..(k - 1) :
                              /\ AutoSteps[i].op = "add"
                              /\ AutoSteps[i].ok
                              /\ \A c \in before : c < i}}
    IN  IF before = {} THEN InitialIndex \cup staged ELSE staged

\* C26: in the autocommit flow, whatever the index held at the beginning, the
\* commit made for a group contains exactly the files of that group, and a
\* run over n groups without a failing step makes exactly n commits.
C26_CommitHoldsItsGroup ==
    (CommitEntered /\ loc.flow = "autocommit") =>
        LET commits == {k \in 1..Len(AutoSteps) :
                          AutoSteps[k].op = "commit" /\ AutoSteps[k].ok}
        IN  /\ \A k \in commits :
                   LET g == Cardinality({c \in commits : c < k}) + 1
                   IN  CommitContents(k) =
                           {groups[g].files[i] : i \in 1..Len(groups[g].files)}
            /\ (Finished /\ exitCode = 0) => Cardinality(commits) = Len(groups)

\* C27: the Sync action reports "Sync completed" only if both git pull and
\* git push were executed in that run and succeeded.
C27_SyncCompletedMeansBoth ==
    (/\ Returned("syncChanges")
     /\ \E i \in 1..Len(callOut) : callOut[i] = OutEv("Sync completed")) =>
        /\ \E i \in 1..Len(callOut) :
               callOut[i].kind = "git" /\ callOut[i].op = "pull" /\ callOut[i].ok
        /\ \E i \in 1..Len(callOut) :
               callOut[i].kind = "git" /\ callOut[i].op = "push" /\ callOut[i].ok

\* semantic-version precedence: a precedes b. Major, minor and patch compare
\* numerically; with these equal a pre-release precedes the release, and two
\* pre-releases compare by type (in ASCII order) and then by number
Precedes(a, b) ==
    LET Rank(type) == CASE type = "alpha" -> 1 [] type = "beta" -> 2
                        [] type = "rc" -> 3 [] OTHER -> 0
    IN  \/ a[1] < b[1]
        \/ a[1] = b[1] /\ a[2] < b[2]
        \/ a[1] = b[1] /\ a[2] = b[2] /\ a[3] < b[3]
        \/ /\ a[1] = b[1] /\ a[2] = b[2] /\ a[3] = b[3]
           /\ \/ a[4] /= "" /\ b[4] = ""
              \/ a[4] /= "" /\ b[4] /= "" /\ Rank(a[4]) < Rank(b[4])
              \/ a[4] /= "" /\ a[4] = b[4] /\ a[5] < b[5]

\* C28: for every latest tag the release handler parses and every computed
\* bump (patch, minor, major, or pre-release of any type), the new version is
\* strictly greater than the latest tag in semantic-version precedence.
C28_NewVersionIsGreater ==
    (/\ cmd = "release"
     /\ loc.bumpType \in {"patch", "minor", "major", "pre"}
     /\ loc.newVersion /= <<>>) =>
        Precedes(loc.latestTag, loc.newVersion)

\* C29: whatever a JSON configuration file contains, loadConfig returns a
\* configuration in which ai, commit, branch and ui are non-null objects.
C29_SectionsAreObjects ==
    (/\ Returned("loadConfig")
     /\ callOut.configPath /= <<>>
     /\ callOut.configPath[2][2] = ".json") =>
        \A section \in {"ai", "commit", "branch", "ui"} :
            /\ section \in DOMAIN callOut.config.v
            /\ callOut.config.v[section].t = "obj"

\* the commit run asked for the staged files and the answer names no file
NothingStaged ==
    /\ CommitEntered
    /\ loc.flow = "ai-generate"
    /\ \E i \in 1..Len(CommitEvents) :
         /\ CommitEvents[i].kind = "git"
         /\ CommitEvents[i].op = "diff --cached --name-only"
         /\ CommitEvents[i].ok
         /\ Len(FilterNonEmpty(SplitLines(Trim(CommitEvents[i].arg)))) = 0

\* C30: a commit run in the ai-generate mode whose `git diff --cached
\* --name-only` named no file sends no request to the text-generation provider,
\* shows no confirmation prompt and runs no `git commit`, and it ends there.
C30_NothingStagedEndsQuietly ==
    NothingStaged =>
        /\ pc \in {"ret", "exit"}
        /\ \A j \in 1..Len(CommitEvents) :
             /\ CommitEvents[j].kind /= "ai"
             /\ CommitEvents[j].kind /= "prompt" \/ CommitEvents[j].op /= "confirm"
             /\ CommitEvents[j].kind /= "git" \/ CommitEvents[j].op /= "commit"

C30_Witness ==
    /\ Finished
    /\ NothingStaged
    /\ CommitEvents[Len(CommitEvents)] = OutEv("No staged changes to commit")

====
